---- MODULE Spec2Model ----
(***************************************************************************)
(* The archive-to-database conversion pipeline of dwca-tools               *)
(* (src/src/dwca_tools/convert.py, db.py, summarize.py) as a state machine.*)
(*                                                                         *)
(* Text is modelled as a sequence of one-character strings, so that the    *)
(* identifier pattern, lower-casing and file-name splitting are computed   *)
(* on characters.  An optional value (Python's None or a value) is a       *)
(* sequence of length 0 or 1.  The destination store commits a batch       *)
(* atomically and stores exactly the rows handed to it.                    *)
(***************************************************************************)
EXTENDS Integers, Sequences, FiniteSets, TLC

\* ------------------------------------------------------------------ bounds
MaxTables == 2
MaxRows == 4
MaxChunk == 3
MaxThreads == 2

\* ------------------------------------------------------------ generic text
None == <<>>
Some(x) == <<x>>
IsNone(o) == Len(o) = 0
Get(o) == o[1]

Range(s) == {s[i] : i \in 1..Len(s)}

LowerAlpha == <<"a","b","c","d","e","f","g","h","i","j","k","l","m",
                "n","o","p","q","r","s","t","u","v","w","x","y","z">>
UpperAlpha == <<"A","B","C","D","E","F","G","H","I","J","K","L","M",
                "N","O","P","Q","R","S","T","U","V","W","X","Y","Z">>
DigitChars == <<"0","1","2","3","4","5","6","7","8","9">>

IsLetter(c) == c \in Range(LowerAlpha) \cup Range(UpperAlpha)
IsDigit(c) == c \in Range(DigitChars)

\* str.lower() on one character, then on a text
LowerChar(c) ==
  IF c \in Range(UpperAlpha)
  THEN LowerAlpha[CHOOSE i \in 1..Len(UpperAlpha) : UpperAlpha[i] = c]
  ELSE c
Lower(s) == [i \in 1..Len(s) |-> LowerChar(s[i])]

\* s.split(sep)[-1] and s.split(sep)[0]
RECURSIVE LastSegmentFrom(_, _, _)
LastSegmentFrom(s, sep, i) ==
  IF i = 0 THEN s
  ELSE IF s[i] = sep THEN SubSeq(s, i + 1, Len(s))
  ELSE LastSegmentFrom(s, sep, i - 1)
LastSegment(s, sep) == LastSegmentFrom(s, sep, Len(s))

RECURSIVE FirstSegmentFrom(_, _, _)
FirstSegmentFrom(s, sep, i) ==
  IF i > Len(s) THEN s
  ELSE IF s[i] = sep THEN SubSeq(s, 1, i - 1)
  ELSE FirstSegmentFrom(s, sep, i + 1)
FirstSegment(s, sep) == FirstSegmentFrom(s, sep, 1)

\* list.index(x): position of the first occurrence, 0 when absent (ValueError)
IndexOf(s, x) ==
  IF x \in Range(s) THEN CHOOSE i \in 1..Len(s) : s[i] = x /\ \A j \in 1..(i - 1) : s[j] # x
  ELSE 0

\* a multiset of rows: row -> number of copies
EmptyBag == <<>>
BagCount(b, x) == IF x \in DOMAIN b THEN b[x] ELSE 0
BagAdd(b, x) == [y \in DOMAIN b \cup {x} |-> BagCount(b, y) + (IF y = x THEN 1 ELSE 0)]
RECURSIVE BagAddSeq(_, _)
BagAddSeq(b, s) == IF Len(s) = 0 THEN b ELSE BagAddSeq(BagAdd(b, Head(s)), Tail(s))
BagOfSeq(s) == BagAddSeq(EmptyBag, s)

\* ------------------------------------------------------------------ state
VARIABLES
  manifest,              \* meta.xml: [core, extensions], each declaring a file and its fields
  zip_files,             \* archive entry name -> its lines (header first), each a list of fields
  dialect,               \* engine.dialect.name
  chunk_size,            \* rows per batch
  num_threads,           \* worker count
  columns_of_interest,   \* settings.columns_of_interest: table name -> list of column names
  indexes,               \* settings.indexes: table name -> list of column names
  line_ending,           \* archive entry name -> how its lines end
  pc,                    \* where convert() is
  error,                 \* the exception convert() ended with, if any
  tables,                \* summarize_tables' result
  table_row_counts,      \* estimate_and_display_row_counts' result
  cur,                   \* index of the table_def insert_data is at
  schema,                \* destination: table name -> column names
  committed,             \* destination: table name -> multiset of committed rows
  db_indexes,            \* destination: set of <<table name, column>> indexes
  session_replication_role,
  selected,              \* columns_of_interest passed to the current table's insert
  reader_pos,            \* read_chunks: next line of the current file to read
  queue,                 \* executor: work items submitted and not yet started
  running,               \* executor: worker -> the work item it runs, if any
  futures,               \* per table_def: outcome of each submitted future, by submission order
  inspected,             \* per table_def: futures whose result() the as_completed loop has taken
  est_queue,             \* estimation executor: table_defs submitted and not yet started
  est_running,           \* estimation executor: worker -> the table_def whose file it counts, if any
  est_futures,           \* estimation: state and result of each table_def's future, by submission order
  est_inspected,         \* estimation: futures whose result() the as_completed loop has taken
  total_rows,            \* history: per table_def, the total its insert progress task was given
  occ_lines,             \* taxa: the occurrence file's lines (header first), each a list of fields
  group_col,             \* taxa: the grouping column
  show_mismatched_names, \* taxa: --show-mismatched-names
  species_only,          \* taxa: --species-only
  collect_gbif_ids,      \* taxa: --image-counts
  taxa_pc,               \* taxa: where _aggregate_occurrences is
  needed_cols,           \* taxa: the columns read from the occurrence file
  occ_pos,               \* taxa: the next line of the occurrence file to read
  groups,                \* taxa: group key -> _TaxaGroup
  group_order,           \* taxa: the group keys in the order the dict received them
  occ_columns,           \* taxa: the occurrence table's column names from the manifest, if it has one
  mm_lines,              \* taxa: the multimedia file's lines (header first), if the archive has the table
  limit,                 \* taxa: --limit, if given
  image_counts,          \* taxa: gbifID -> number of multimedia rows
  results,               \* taxa: the TaxaResult list
  total_groups,          \* taxa: len(results) before the limit, once taken
  console_out,           \* taxa: what was printed, in order
  exit_code,             \* taxa: how the command ended, if it has
  copy_n,                \* bulk copy: the number of batch tasks submitted
  copy_pc,               \* bulk copy: where each batch task's _pg_copy_chunk is
  copy_conn,             \* bulk copy: the connection each task holds in conn, 0 before it has one
  connections,           \* bulk copy: every connection raw_connection() returned, in order
  copy_db,               \* bulk copy: the batches the destination holds committed
  stream,                \* counting: the bytes of the file object
  stream_pos,            \* counting: how many bytes have been read
  read_sizes,            \* counting: the length of what each read() returned, in order
  total,                 \* counting: _count_newlines' total
  count_pc,              \* counting: where _count_newlines is
  max_polls,             \* polling: the most status requests to make
  poll_i,                \* polling: the loop variable i
  poll_pc,               \* polling: where poll_until_complete is
  poll_log,              \* polling: the statuses received and the waits, in order
  yielded,               \* history: per table_def, the (headers, chunk) pairs read_chunks yielded
  exhausted,             \* history: per table_def, read_chunks ran to the end of the file
  loaded,                \* history: per table_def, its insert function returned normally
  failed_batches,        \* history: <<table_def index, batch number>> of batches whose insert raised
  toggles,               \* history: values session_replication_role was set to, in order
  success                \* "Conversion completed successfully!" was printed

inputs == <<manifest, zip_files, dialect, chunk_size, num_threads,
            columns_of_interest, indexes, line_ending>>
estimation == <<est_queue, est_running, est_futures, est_inspected>>
taxa_inputs == <<occ_lines, group_col, show_mismatched_names, species_only, collect_gbif_ids>>
taxa_vars == <<taxa_inputs, taxa_pc, needed_cols, occ_pos, groups, group_order>>
command_inputs == <<occ_columns, mm_lines, limit>>
command_vars == <<command_inputs, image_counts, results, total_groups, console_out, exit_code>>
copy_vars == <<copy_n, copy_pc, copy_conn, connections, copy_db>>
count_vars == <<stream, stream_pos, read_sizes, total, count_pc>>
poll_vars == <<max_polls, poll_i, poll_pc, poll_log>>
side_vars == <<copy_vars, count_vars, poll_vars>>
store == <<schema, committed, db_indexes, session_replication_role>>
pool == <<queue, running, futures, inspected>>
history == <<yielded, exhausted, loaded, failed_batches, toggles, success>>
convert_vars == <<inputs, pc, error, tables, table_row_counts, cur, store, selected,
                  reader_pos, pool, history, estimation, total_rows>>
vars == <<inputs, pc, error, tables, table_row_counts, cur, store, selected,
          reader_pos, pool, history, estimation, total_rows, taxa_vars, command_vars, side_vars>>

\* ------------------------------------------------------------ summarize.py
\* urlparse(filename).path for a name with no scheme and no network location
UrlPath(filename) == FirstSegment(FirstSegment(filename, "#"), "?")

extract_name_from_term(term) == LastSegment(term, "/")

extract_table_name_from_filename(filename) ==
  Lower(FirstSegment(LastSegment(UrlPath(filename), "/"), "."))

Unknown == <<"U","n","k","n","o","w","n">>

extract_table_name_from_rowtype(rowtype) == Lower(LastSegment(rowtype, "/"))

\* the table named by the other helper, from the element's rowType attribute
TableDefinitionOf_rowtype(decl) ==
  LET filename == IF ~IsNone(decl.location) /\ Len(Get(decl.location)) > 0
                  THEN Get(decl.location) ELSE Unknown
      withTerm == SelectSeq(decl.fields,
                            LAMBDA f : ~IsNone(f.term) /\ Len(Get(f.term)) > 0)
  IN [name |-> extract_table_name_from_rowtype(decl.rowType),
      filename |-> filename,
      columns |-> [i \in 1..Len(withTerm) |->
                     [index |-> withTerm[i].index,
                      name |-> extract_name_from_term(Get(withTerm[i].term))]]]

TableDefinitionOf(decl) ==
  LET filename == IF ~IsNone(decl.location) /\ Len(Get(decl.location)) > 0
                  THEN Get(decl.location) ELSE Unknown
      withTerm == SelectSeq(decl.fields,
                            LAMBDA f : ~IsNone(f.term) /\ Len(Get(f.term)) > 0)
  IN [name |-> extract_table_name_from_filename(filename),
      filename |-> filename,
      columns |-> [i \in 1..Len(withTerm) |->
                     [index |-> withTerm[i].index,
                      name |-> extract_name_from_term(Get(withTerm[i].term))]]]

\* the extension elements read before the core element
summarize_tables_extensions_first(m) ==
  [i \in 1..Len(m.extensions) |-> TableDefinitionOf(m.extensions[i])]
  \o (IF IsNone(m.core) THEN <<>> ELSE <<TableDefinitionOf(Get(m.core))>>)

summarize_tables(m) ==
  (IF IsNone(m.core) THEN <<>> ELSE <<TableDefinitionOf(Get(m.core))>>)
  \o [i \in 1..Len(m.extensions) |-> TableDefinitionOf(m.extensions[i])]

\* ------------------------------------------------------------------- db.py
IsIdentStart(c) == IsLetter(c) \/ c = "_"
IsIdentChar(c) == IsLetter(c) \/ IsDigit(c) \/ c = "_"

\* _SQL_IDENTIFIER_RE.match(name) for ^[A-Za-z_][A-Za-z0-9_]*$ : Python's $ matches
\* at the end of the text and also just before a line feed that ends the text.
_SQL_IDENTIFIER_RE_match(name) ==
  /\ Len(name) >= 1
  /\ IsIdentStart(name[1])
  /\ \/ \A i \in 2..Len(name) : IsIdentChar(name[i])
     \/ /\ Len(name) >= 2
        /\ name[Len(name)] = "\n"
        /\ \A i \in 2..(Len(name) - 1) : IsIdentChar(name[i])

\* TRUE: returns the name; FALSE: raises ValueError
validate_sql_identifier(name) == _SQL_IDENTIFIER_RE_match(name)

IdColumn == <<"i","d">>

\* [ok: no ValueError was raised, name, cols: the Table's column names]
create_table(table_name, columns) ==
  LET stored == SelectSeq(columns, LAMBDA c : ~IsNone(c.index)) IN
  [ok |-> /\ validate_sql_identifier(table_name)
          /\ \A i \in 1..Len(stored) : validate_sql_identifier(stored[i].name),
   name |-> table_name,
   cols |-> <<IdColumn>> \o [i \in 1..Len(stored) |-> stored[i].name]]

\* a second definition of a name taking the place of the first
MetaDataAdd_replace(metadata, t) ==
  [n \in DOMAIN metadata \cup {t.name} |-> IF n = t.name THEN t.cols ELSE metadata[n]]

\* Table(name, metadata, *cols, extend_existing=True): a second definition of a
\* name adds its columns to the table the MetaData already holds.
MetaDataAdd(metadata, t) ==
  IF t.name \in DOMAIN metadata
  THEN [n \in DOMAIN metadata |->
          IF n = t.name
          THEN metadata[n] \o SelectSeq(t.cols, LAMBDA c : c \notin Range(metadata[n]))
          ELSE metadata[n]]
  ELSE [n \in DOMAIN metadata \cup {t.name} |->
          IF n = t.name THEN t.cols ELSE metadata[n]]

\* the loop of create_schema_from_meta over tables[i..]: [ok, metadata]
RECURSIVE create_tables_from(_, _, _)
create_tables_from(tbls, i, metadata) ==
  IF i > Len(tbls) THEN [ok |-> TRUE, metadata |-> metadata]
  ELSE LET t == create_table(tbls[i].name, tbls[i].columns) IN
       IF ~t.ok THEN [ok |-> FALSE, metadata |-> metadata]
       ELSE create_tables_from(tbls, i + 1, MetaDataAdd(metadata, t))

create_schema_from_meta(tbls) == create_tables_from(tbls, 1, <<>>)

get_table_column_names(table_name) == Range(schema[table_name])

\* -------------------------------------------------------------- convert.py
\* One next() of the read_chunks generator on a file's lines, from line pos
\* (pos = 1: nothing read yet, the first line is taken as the headers).
\* The for loop: append rows until the chunk holds chunk_size of them or the
\* file ends.  [chunk, pos]; an empty chunk means the generator is exhausted.
\* the loop yielding on len(chunk) > chunk_size instead of >=
RECURSIVE read_chunk_loop_late(_, _, _, _)
read_chunk_loop_late(lines, pos, chunk, size) ==
  IF pos > Len(lines) THEN [chunk |-> chunk, pos |-> pos]
  ELSE LET chunk2 == Append(chunk, lines[pos]) IN
       IF Len(chunk2) > size THEN [chunk |-> chunk2, pos |-> pos + 1]
       ELSE read_chunk_loop_late(lines, pos + 1, chunk2, size)

RECURSIVE read_chunk_loop(_, _, _, _)
read_chunk_loop(lines, pos, chunk, size) ==
  IF pos > Len(lines) THEN [chunk |-> chunk, pos |-> pos]
  ELSE LET chunk2 == Append(chunk, lines[pos]) IN
       IF Len(chunk2) >= size THEN [chunk |-> chunk2, pos |-> pos + 1]
       ELSE read_chunk_loop(lines, pos + 1, chunk2, size)

FirstDataLine == 2

\* read_chunks without its final "if chunk: yield": a short last batch is lost
read_chunks_drops_tail(lines, pos, size) ==
  LET r == read_chunk_loop(lines, IF pos = 1 THEN FirstDataLine ELSE pos, <<>>, size)
  IN [headers |-> lines[1],
      chunk |-> IF Len(r.chunk) = size THEN r.chunk ELSE <<>>,
      pos |-> r.pos]

read_chunks(lines, pos, size) ==
  LET r == read_chunk_loop(lines, IF pos = 1 THEN FirstDataLine ELSE pos, <<>>, size)
  IN [headers |-> lines[1], chunk |-> r.chunk, pos |-> r.pos]

\* columns_of_interest is optional: None transfers every header column
filter_columns(headers, coi) ==
  IF ~IsNone(coi)
  THEN SelectSeq(headers, LAMBDA col : col \in Range(Get(coi)))
  ELSE headers

\* lines 289-294 of insert_data: the configured columns that exist in the
\* destination schema, compared in lower case
select_columns(table_name) ==
  LET schema_columns_lower == {Lower(c) : c \in get_table_column_names(table_name)} IN
  IF table_name \in DOMAIN columns_of_interest
  THEN Some(SelectSeq(columns_of_interest[table_name],
                      LAMBDA c : Lower(c) \in schema_columns_lower))
  ELSE None

\* row[i] for i in col_indices raises IndexError on a row that is too short
RowIndexError(row, col_indices) == \E k \in 1..Len(col_indices) : col_indices[k] > Len(row)

\* the dict {col: row[idx]} kept as the list of its (col, value) items
RowDict(row, filtered_columns, col_indices) ==
  [k \in 1..Len(filtered_columns) |-> <<filtered_columns[k], row[col_indices[k]]>>]

\* _pg_copy_chunk up to buffer.seek(0): [raised, buffer]; the buffer holds the
\* header line and one line of selected fields per row
pg_copy_buffer(headers, chunk, filtered_columns) ==
  LET col_indices == [k \in 1..Len(filtered_columns) |-> IndexOf(headers, filtered_columns[k])]
      bad == \E r \in 1..Len(chunk) : RowIndexError(chunk[r], col_indices)
  IN [raised |-> bad,
      buffer |-> IF bad THEN <<>>
                 ELSE <<filtered_columns>> \o
                      [r \in 1..Len(chunk) |->
                         [k \in 1..Len(col_indices) |-> chunk[r][col_indices[k]]]]]

\* COPY table (col_list) FROM STDIN WITH (FORMAT CSV, HEADER TRUE): the first
\* line of the buffer is skipped, every other line becomes a row of col_list
copy_expert_rows(col_list, buffer) ==
  [r \in 1..(Len(buffer) - 1) |->
     [k \in 1..Len(col_list) |-> <<col_list[k], buffer[r + 1][k]>>]]

\* the rows list of _sqlite_insert_table for one chunk: [raised, rows]
sqlite_rows(headers, chunk, filtered_columns) ==
  LET col_indices == [k \in 1..Len(filtered_columns) |-> IndexOf(headers, filtered_columns[k])]
      bad == \E r \in 1..Len(chunk) : RowIndexError(chunk[r], col_indices)
  IN [raised |-> bad,
      rows |-> IF bad THEN <<>>
               ELSE [r \in 1..Len(chunk) |-> RowDict(chunk[r], filtered_columns, col_indices)]]

\* the skip test comparing names as written instead of in lower case
indexable_columns_exact_case(table_name, cols) ==
  SelectSeq(cols, LAMBDA col : col \in get_table_column_names(table_name))

\* the configured index columns create_indexes does not skip
indexable_columns(table_name, cols) ==
  LET existing_columns_lower == {Lower(c) : c \in get_table_column_names(table_name)} IN
  SelectSeq(cols, LAMBDA col : Lower(col) \in existing_columns_lower)

\* -------------------------------------------------------------- the machine
use_pg == dialect = "postgresql"
Workers == 1..num_threads
\* the destination may reject any statement
Faults == {FALSE, TRUE}
CurDef == tables[cur]
\* reading that stops once row_count rows were read
CurLines_upto_row_count ==
  LET lines == zip_files[CurDef.filename]
      n == table_row_counts[CurDef.name]
  IN SubSeq(lines, 1, IF 1 + n < Len(lines) THEN 1 + n ELSE Len(lines))

CurLines == zip_files[CurDef.filename]
InFlight == Len(queue) > 0 \/ \E w \in Workers : ~IsNone(running[w])
TablePc(i) == IF i <= Len(tables) THEN "table" ELSE "restore"

Raise(kind) == /\ pc' = "raised"
               /\ error' = Some(kind)

\* convert, line 406
convert_summarize_tables ==
  /\ pc = "parse"
  /\ tables' = summarize_tables(manifest)
  /\ pc' = "schema"
  /\ UNCHANGED <<inputs, taxa_vars, command_vars, side_vars, estimation, total_rows, error, table_row_counts, cur, store, selected, reader_pos,
                 pool, history>>

\* convert, line 411: every create_table runs before metadata.create_all
convert_create_schema ==
  /\ pc = "schema"
  /\ LET r == create_schema_from_meta(tables) IN
     IF ~r.ok
     THEN /\ Raise("ValueError")
          /\ UNCHANGED <<schema, committed>>
     ELSE \E fault \in Faults :
            IF fault
            THEN /\ Raise("BackendError")
                 /\ UNCHANGED <<schema, committed>>
            ELSE /\ schema' = r.metadata
                 /\ committed' = [n \in DOMAIN r.metadata |-> EmptyBag]
                 /\ pc' = "estimate"
                 /\ UNCHANGED error
  /\ UNCHANGED <<inputs, taxa_vars, command_vars, side_vars, estimation, total_rows, tables, table_row_counts, cur, db_indexes,
                 session_replication_role, selected, reader_pos, pool, history>>

\* _count_newlines on an entry: the number of "\n" bytes.  Every line of an
\* "lf" file ends in one, the last line of an "lf_open" file does not, and the
\* lines of a "cr" file end in "\r" (csv.reader splits on either).
_count_newlines(filename) ==
  CASE line_ending[filename] = "lf" -> Len(zip_files[filename])
    [] line_ending[filename] = "lf_open" -> Len(zip_files[filename]) - 1
    [] line_ending[filename] = "cr" -> 0

EstWorkers == 1..num_threads
\* reading an entry may fail under a counting task (a damaged entry, an I/O error)
ReadFaults == {FALSE, TRUE}
EstInFlight == Len(est_queue) > 0 \/ \E w \in EstWorkers : ~IsNone(est_running[w])

\* the name the as_completed loop files a result under, read after the submit
\* loop from its loop variable: the last table_def's
future_to_table_late_binding(f) == tables[Len(tables)].name

\* future_to_table[future][0]: the name of the table_def the future was submitted for
future_to_table(f) == tables[f].name

DictSet(d, key, value) ==
  [k \in DOMAIN d \cup {key} |-> IF k = key THEN value ELSE d[k]]

\* estimate_and_display_row_counts, lines 118-125: one turn of the submit loop, or its end
estimate_and_display_row_counts_submit ==
  /\ pc = "estimate"
  /\ IF Len(est_futures) < Len(tables)
     THEN /\ est_futures' = Append(est_futures, [state |-> "pending", result |-> 0])
          /\ est_queue' = Append(est_queue, Len(est_futures) + 1)
          /\ UNCHANGED pc
     ELSE /\ pc' = "est_await"
          /\ UNCHANGED <<est_futures, est_queue>>
  /\ UNCHANGED <<inputs, taxa_vars, command_vars, side_vars, error, tables, table_row_counts, cur, store, selected, reader_pos,
                 pool, history, est_running, est_inspected, total_rows>>

\* ThreadPoolExecutor(max_workers=num_threads): an idle worker takes the oldest
\* task.  The workers are interchangeable: the lowest idle one stands for any.
EstimateWorkerTake(w) ==
  /\ IsNone(est_running[w])
  /\ \A v \in 1..(w - 1) : ~IsNone(est_running[v])
  /\ Len(est_queue) > 0
  /\ est_running' = [est_running EXCEPT ![w] = Some(Head(est_queue))]
  /\ est_queue' = Tail(est_queue)
  /\ est_futures' = [est_futures EXCEPT ![Head(est_queue)].state = "running"]
  /\ UNCHANGED <<inputs, taxa_vars, command_vars, side_vars, pc, error, tables, table_row_counts, cur, store, selected,
                 reader_pos, pool, history, est_inspected, total_rows>>

\* estimate_row_count: zip_ref.open raises KeyError for a name the archive
\* does not hold; otherwise the task reads its own handle to the end, unless
\* a read fails
estimate_row_count(w) ==
  /\ ~IsNone(est_running[w])
  /\ LET t == Get(est_running[w]) IN
     IF tables[t].filename \notin DOMAIN zip_files
     THEN est_futures' = [est_futures EXCEPT ![t] = [state |-> "KeyError", result |-> 0]]
     ELSE \E fault \in ReadFaults :
            est_futures' = [est_futures EXCEPT ![t] =
              IF fault THEN [state |-> "OSError", result |-> 0]
              ELSE [state |-> "done", result |-> _count_newlines(tables[t].filename)]]
  /\ est_running' = [est_running EXCEPT ![w] = None]
  /\ UNCHANGED <<inputs, taxa_vars, command_vars, side_vars, pc, error, tables, table_row_counts, cur, store, selected,
                 reader_pos, pool, history, est_queue, est_inspected, total_rows>>

\* lines 127-135: as_completed yields a finished future; future.result()
\* returns the count or re-raises the task's exception
estimate_and_display_row_counts_as_completed ==
  /\ pc = "est_await"
  /\ \E f \in DOMAIN est_futures \ est_inspected :
       /\ est_futures[f].state \notin {"pending", "running"}
       /\ IF est_futures[f].state = "done"
          THEN /\ table_row_counts' = DictSet(table_row_counts, future_to_table(f),
                                              est_futures[f].result)
               /\ est_inspected' = est_inspected \cup {f}
               /\ UNCHANGED <<pc, error>>
          ELSE /\ pc' = "est_unwind"
               /\ error' = Some(est_futures[f].state)
               /\ UNCHANGED <<table_row_counts, est_inspected>>
  /\ UNCHANGED <<inputs, taxa_vars, command_vars, side_vars, tables, cur, store, selected, reader_pos, pool, history,
                 est_queue, est_running, est_futures, total_rows>>

\* line 136: the loop is over, the with block exits, the mapping is returned
estimate_and_display_row_counts_return ==
  /\ pc = "est_await"
  /\ est_inspected = DOMAIN est_futures
  /\ ~EstInFlight
  /\ pc' = "disable"
  /\ UNCHANGED <<inputs, taxa_vars, command_vars, side_vars, estimation, total_rows, error, tables, table_row_counts, cur, store,
                 selected, reader_pos, pool, history>>

\* the exception leaves the with block once the executor has finished every
\* submitted task; convert has no handler for it
estimate_and_display_row_counts_raise ==
  /\ pc = "est_unwind"
  /\ ~EstInFlight
  /\ pc' = "raised"
  /\ UNCHANGED <<inputs, taxa_vars, command_vars, side_vars, estimation, total_rows, error, tables, table_row_counts, cur, store,
                 selected, reader_pos, pool, history>>

\* insert_data, lines 275-278
insert_data_disable_enforcement ==
  /\ pc = "disable"
  /\ IF use_pg
     THEN /\ session_replication_role' = "replica"
          /\ toggles' = Append(toggles, "replica")
     ELSE UNCHANGED <<session_replication_role, toggles>>
  /\ cur' = 1
  /\ pc' = TablePc(1)
  /\ UNCHANGED <<inputs, taxa_vars, command_vars, side_vars, estimation, total_rows, error, tables, table_row_counts, schema, committed, db_indexes,
                 selected, reader_pos, pool, yielded, exhausted, loaded, failed_batches, success>>

\* insert_data, lines 280-296: row_count lookup, column lookup and selection,
\* then dispatch with row_count as the progress total
insert_data_begin_table ==
  /\ pc = "table"
  /\ IF CurDef.name \notin DOMAIN table_row_counts
     THEN /\ Raise("KeyError")
          /\ UNCHANGED <<selected, reader_pos, total_rows>>
     ELSE \E fault \in Faults :
            IF fault
            THEN /\ Raise("BackendError")
                 /\ UNCHANGED <<selected, reader_pos, total_rows>>
            ELSE /\ selected' = select_columns(CurDef.name)
                 /\ reader_pos' = 1
                 /\ total_rows' = [total_rows EXCEPT ![cur] = Some(table_row_counts[CurDef.name])]
                 /\ pc' = IF use_pg THEN "pg_submit" ELSE "sqlite"
                 /\ UNCHANGED error
  /\ UNCHANGED <<inputs, taxa_vars, command_vars, side_vars, estimation, tables, table_row_counts, cur, store, pool, history>>

\* returning right after the submit loop, without waiting for the futures
AfterSubmit_no_wait == "indexes"

\* where _pg_insert_table goes when the submit loop ends: the as_completed loop
AfterSubmit == "pg_await"

\* _pg_insert_table, lines 192-198: one turn of the submit loop, or its end
_pg_insert_table_submit ==
  /\ pc = "pg_submit"
  /\ LET r == read_chunks(CurLines, reader_pos, chunk_size) IN
     IF Len(r.chunk) > 0
     THEN /\ reader_pos' = r.pos
          /\ yielded' = [yielded EXCEPT ![cur] = Append(@, [headers |-> r.headers, chunk |-> r.chunk])]
          /\ futures' = [futures EXCEPT ![cur] = Append(@, "pending")]
          /\ queue' = Append(queue, [t |-> cur,
                                     fut |-> Len(futures[cur]) + 1,
                                     table_name |-> CurDef.name,
                                     headers |-> r.headers,
                                     chunk |-> r.chunk,
                                     filtered_columns |-> filter_columns(r.headers, selected)])
          /\ UNCHANGED <<pc, exhausted>>
     ELSE /\ pc' = AfterSubmit
          /\ exhausted' = [exhausted EXCEPT ![cur] = TRUE]
          /\ UNCHANGED <<reader_pos, yielded, futures, queue>>
  /\ UNCHANGED <<inputs, taxa_vars, command_vars, side_vars, estimation, total_rows, error, tables, table_row_counts, cur, store, selected,
                 running, inspected, loaded, failed_batches, toggles, success>>

\* ThreadPoolExecutor: an idle worker takes the oldest queued work item
WorkerTake(w) ==
  /\ IsNone(running[w])
  /\ Len(queue) > 0
  /\ running' = [running EXCEPT ![w] = Some(Head(queue))]
  /\ queue' = Tail(queue)
  /\ futures' = [futures EXCEPT ![Head(queue).t][Head(queue).fut] = "running"]
  /\ UNCHANGED <<inputs, taxa_vars, command_vars, side_vars, estimation, total_rows, pc, error, tables, table_row_counts, cur, store, selected,
                 reader_pos, inspected, history>>

\* _pg_copy_chunk on its own connection: the copy and commit, or an exception
\* with nothing committed; the connection is closed either way
_pg_copy_chunk(w) ==
  /\ ~IsNone(running[w])
  /\ LET item == Get(running[w])
         b == pg_copy_buffer(item.headers, item.chunk, item.filtered_columns)
     IN IF b.raised
        THEN /\ futures' = [futures EXCEPT ![item.t][item.fut] = "IndexError"]
             /\ failed_batches' = failed_batches \cup {<<item.t, item.fut>>}
             /\ UNCHANGED committed
        ELSE \E fault \in Faults :
               IF fault
               THEN /\ futures' = [futures EXCEPT ![item.t][item.fut] = "BackendError"]
                    /\ failed_batches' = failed_batches \cup {<<item.t, item.fut>>}
                    /\ UNCHANGED committed
               ELSE /\ futures' = [futures EXCEPT ![item.t][item.fut] = "ok"]
                    /\ committed' = [committed EXCEPT ![item.table_name] =
                         BagAddSeq(@, copy_expert_rows(item.filtered_columns, b.buffer))]
                    /\ UNCHANGED failed_batches
  /\ running' = [running EXCEPT ![w] = None]
  /\ UNCHANGED <<inputs, taxa_vars, command_vars, side_vars, estimation, total_rows, pc, error, tables, table_row_counts, cur, schema, db_indexes,
                 session_replication_role, selected, reader_pos, queue, inspected,
                 yielded, exhausted, loaded, toggles, success>>

FutureDone(t, f) == futures[t][f] \notin {"pending", "running"}

\* the loop leaving after the first result instead of taking every future's
as_completed_first_only(t) == inspected[t] # {} \/ DOMAIN futures[t] = {}

\* the as_completed loop is over: every future was yielded and its result taken
as_completed_exhausted(t) == inspected[t] = DOMAIN futures[t]

\* _pg_insert_table, lines 199-201: as_completed yields a finished future and
\* future.result() returns or re-raises the task's exception
_pg_insert_table_as_completed ==
  /\ pc = "pg_await"
  /\ \E f \in DOMAIN futures[cur] \ inspected[cur] :
       /\ FutureDone(cur, f)
       /\ IF futures[cur][f] = "ok"
          THEN /\ inspected' = [inspected EXCEPT ![cur] = @ \cup {f}]
               /\ UNCHANGED <<pc, error>>
          ELSE /\ pc' = "pg_unwind"
               /\ error' = Some(futures[cur][f])
               /\ UNCHANGED inspected
  /\ UNCHANGED <<inputs, taxa_vars, command_vars, side_vars, estimation, total_rows, tables, table_row_counts, cur, store, selected, reader_pos,
                 queue, running, futures, history>>

\* _pg_insert_table returns: the loop ended and the executor's with block exits
_pg_insert_table_return ==
  /\ pc = "pg_await"
  /\ as_completed_exhausted(cur)
  /\ ~InFlight
  /\ loaded' = [loaded EXCEPT ![cur] = TRUE]
  /\ pc' = "indexes"
  /\ UNCHANGED <<inputs, taxa_vars, command_vars, side_vars, estimation, total_rows, error, tables, table_row_counts, cur, store, selected,
                 reader_pos, pool, yielded, exhausted, failed_batches, toggles, success>>

\* the exception leaves the executor's with block: shutdown(wait=True) returns
\* once every work item still queued or running has finished
_pg_insert_table_raise ==
  /\ pc = "pg_unwind"
  /\ ~InFlight
  /\ pc' = "raised"
  /\ UNCHANGED <<inputs, taxa_vars, command_vars, side_vars, estimation, total_rows, error, tables, table_row_counts, cur, store, selected,
                 reader_pos, pool, history>>

\* _sqlite_insert_table, lines 226-235: one turn of the loop, or its end
_sqlite_insert_table ==
  /\ pc = "sqlite"
  /\ LET r == read_chunks(CurLines, reader_pos, chunk_size) IN
     IF Len(r.chunk) > 0
     THEN /\ reader_pos' = r.pos
          /\ yielded' = [yielded EXCEPT ![cur] = Append(@, [headers |-> r.headers, chunk |-> r.chunk])]
          /\ UNCHANGED <<loaded, exhausted>>
          /\ LET x == sqlite_rows(r.headers, r.chunk, filter_columns(r.headers, selected)) IN
             IF x.raised
             THEN /\ Raise("IndexError")
                  /\ failed_batches' = failed_batches \cup {<<cur, Len(yielded[cur]) + 1>>}
                  /\ UNCHANGED committed
             ELSE \E fault \in Faults :
                    IF fault
                    THEN /\ Raise("BackendError")
                         /\ failed_batches' = failed_batches \cup {<<cur, Len(yielded[cur]) + 1>>}
                         /\ UNCHANGED committed
                    ELSE /\ committed' = [committed EXCEPT ![CurDef.name] = BagAddSeq(@, x.rows)]
                         /\ UNCHANGED <<pc, error, failed_batches>>
     ELSE /\ loaded' = [loaded EXCEPT ![cur] = TRUE]
          /\ exhausted' = [exhausted EXCEPT ![cur] = TRUE]
          /\ pc' = "indexes"
          /\ UNCHANGED <<error, reader_pos, yielded, committed, failed_batches>>
  /\ UNCHANGED <<inputs, taxa_vars, command_vars, side_vars, estimation, total_rows, tables, table_row_counts, cur, schema, db_indexes,
                 session_replication_role, selected, pool, toggles, success>>

\* insert_data, lines 319-326: create_indexes commits index by index, then the
\* loop moves to the next table_def
create_indexes ==
  /\ pc = "indexes"
  /\ LET table_indexes == IF CurDef.name \in DOMAIN indexes THEN indexes[CurDef.name] ELSE <<>>
         todo == indexable_columns(CurDef.name, table_indexes)
     IN IF Len(table_indexes) > 0
        THEN \E fault \in Faults :
               IF fault
               THEN \E k \in {0} \cup 0..(Len(todo) - 1) :
                      /\ db_indexes' = db_indexes \cup {<<CurDef.name, todo[i]>> : i \in 1..k}
                      /\ Raise("BackendError")
                      /\ UNCHANGED cur
               ELSE /\ db_indexes' = db_indexes \cup {<<CurDef.name, todo[i]>> : i \in 1..Len(todo)}
                    /\ cur' = cur + 1
                    /\ pc' = TablePc(cur + 1)
                    /\ UNCHANGED error
        ELSE /\ cur' = cur + 1
             /\ pc' = TablePc(cur + 1)
             /\ UNCHANGED <<db_indexes, error>>
  /\ UNCHANGED <<inputs, taxa_vars, command_vars, side_vars, estimation, total_rows, tables, table_row_counts, schema, committed,
                 session_replication_role, selected, reader_pos, pool, history>>

\* insert_data, lines 328-331
insert_data_restore_enforcement ==
  /\ pc = "restore"
  /\ IF use_pg
     THEN /\ session_replication_role' = "origin"
          /\ toggles' = Append(toggles, "origin")
     ELSE UNCHANGED <<session_replication_role, toggles>>
  /\ pc' = "summarize"
  /\ UNCHANGED <<inputs, taxa_vars, command_vars, side_vars, estimation, total_rows, error, tables, table_row_counts, cur, schema, committed,
                 db_indexes, selected, reader_pos, pool, yielded, exhausted, loaded,
                 failed_batches, success>>

\* convert, lines 418-421
convert_report_success ==
  /\ pc = "summarize"
  /\ success' = TRUE
  /\ pc' = "done"
  /\ UNCHANGED <<inputs, taxa_vars, command_vars, side_vars, estimation, total_rows, error, tables, table_row_counts, cur, store, selected,
                 reader_pos, pool, yielded, exhausted, loaded, failed_batches, toggles>>

Next ==
  \/ convert_summarize_tables
  \/ convert_create_schema
  \/ estimate_and_display_row_counts_submit
  \/ \E w \in EstWorkers : EstimateWorkerTake(w)
  \/ \E w \in EstWorkers : estimate_row_count(w)
  \/ estimate_and_display_row_counts_as_completed
  \/ estimate_and_display_row_counts_return
  \/ estimate_and_display_row_counts_raise
  \/ insert_data_disable_enforcement
  \/ insert_data_begin_table
  \/ _pg_insert_table_submit
  \/ \E w \in Workers : WorkerTake(w)
  \/ \E w \in Workers : _pg_copy_chunk(w)
  \/ _pg_insert_table_as_completed
  \/ _pg_insert_table_return
  \/ _pg_insert_table_raise
  \/ _sqlite_insert_table
  \/ create_indexes
  \/ insert_data_restore_enforcement
  \/ convert_report_success

\* ----------------------------------------------------------------- taxa.py
\* str.upper() on one character, then on a text
UpperChar(c) ==
  IF c \in Range(LowerAlpha)
  THEN UpperAlpha[CHOOSE i \in 1..Len(LowerAlpha) : LowerAlpha[i] = c]
  ELSE c

\* the rank compared as written
Upper_as_written(s) == s

Upper(s) == [i \in 1..Len(s) |-> UpperChar(s[i])]

\* dict.get(key, default)
DictGet(d, key, default) == IF key \in DOMAIN d THEN d[key] ELSE default

\* every column of the file read
needed_columns_whole_header == occ_lines[1]

\* _aggregate_occurrences, lines 75-83
needed_columns ==
  LET c1 == <<group_col>>
      c2 == IF collect_gbif_ids THEN Append(c1, "gbifID") ELSE c1
      c3 == IF show_mismatched_names /\ "taxonID" \notin Range(c2) THEN Append(c2, "taxonID") ELSE c2
      c4 == IF show_mismatched_names /\ "scientificName" \notin Range(c3)
            THEN Append(c3, "scientificName") ELSE c3
  IN IF species_only THEN Append(c4, "taxonRank") ELSE c4

\* one row yielded by _read_table_as_dicts: the wanted columns the header has
\* and the row is long enough for
_read_table_as_dicts(header, row, columns) ==
  [col \in {c \in Range(columns) : c \in Range(header) /\ IndexOf(header, c) <= Len(row)} |->
     row[IndexOf(header, col)]]

SPECIES == <<"S","P","E","C","I","E","S">>
NewTaxaGroup == [gbif_ids |-> {}, count |-> 0, taxon_ids |-> {}, sci_names |-> {}]
AddIfSet(set, value) == IF value # <<>> THEN set \cup {value} ELSE set

\* lines 87-88: the row is skipped
not_species(row) == species_only /\ Upper(DictGet(row, "taxonRank", <<>>)) # SPECIES

\* lines 89-102: the row is counted in its group
count_row(g, row) ==
  LET key == DictGet(row, group_col, <<>>)
      entry == IF key \in DOMAIN g THEN g[key] ELSE NewTaxaGroup
  IN DictSet(g, key,
       [count |-> entry.count + 1,
        gbif_ids |-> IF collect_gbif_ids
                     THEN AddIfSet(entry.gbif_ids, DictGet(row, "gbifID", <<>>))
                     ELSE entry.gbif_ids,
        taxon_ids |-> IF show_mismatched_names
                      THEN AddIfSet(entry.taxon_ids, DictGet(row, "taxonID", <<>>))
                      ELSE entry.taxon_ids,
        sci_names |-> IF show_mismatched_names
                      THEN AddIfSet(entry.sci_names, DictGet(row, "scientificName", <<>>))
                      ELSE entry.sci_names])

\* the loop body dropping a row that has no grouping value
accumulate_drops_empty_key(g, row) ==
  IF not_species(row) \/ DictGet(row, group_col, <<>>) = <<>> THEN g ELSE count_row(g, row)

\* the loop body collecting the identifiers of a row before the rank test
accumulate_ids_of_skipped_rows(g, row) ==
  IF not_species(row)
  THEN LET counted == count_row(g, row)
           key == DictGet(row, group_col, <<>>)
       IN DictSet(g, key, [counted[key] EXCEPT !.count = @ - 1])
  ELSE count_row(g, row)

\* lines 87-102: the body of the loop over the rows
accumulate(g, row) == IF not_species(row) THEN g ELSE count_row(g, row)

\* the keys a dict gained in one step, in the order it received them (one
\* step adds at most one key)
SetToSeq(S) == IF S = {} THEN <<>> ELSE <<CHOOSE x \in S : TRUE>>

\* _aggregate_occurrences, lines 75-86: the columns are chosen, the file is
\* opened and its header read
_aggregate_occurrences_begin ==
  /\ taxa_pc = "start"
  /\ needed_cols' = needed_columns
  /\ groups' = <<>>
  /\ group_order' = <<>>
  /\ occ_pos' = FirstDataLine
  /\ taxa_pc' = "aggregate"
  /\ UNCHANGED <<convert_vars, side_vars, taxa_inputs, command_vars>>

\* one turn of the loop at line 86
_aggregate_occurrences_row ==
  /\ taxa_pc = "aggregate"
  /\ occ_pos <= Len(occ_lines)
  /\ groups' = accumulate(groups, _read_table_as_dicts(occ_lines[1], occ_lines[occ_pos], needed_cols))
  /\ group_order' = group_order \o SetToSeq(DOMAIN groups' \ DOMAIN groups)
  /\ occ_pos' = occ_pos + 1
  /\ UNCHANGED <<convert_vars, side_vars, taxa_inputs, taxa_pc, needed_cols, command_vars>>

\* line 103: the stream is exhausted
_aggregate_occurrences_return ==
  /\ taxa_pc = "aggregate"
  /\ occ_pos > Len(occ_lines)
  /\ taxa_pc' = "aggregated"
  /\ UNCHANGED <<convert_vars, side_vars, taxa_inputs, needed_cols, occ_pos, groups, group_order, command_vars>>

NextTaxa ==
  \/ _aggregate_occurrences_begin
  \/ _aggregate_occurrences_row
  \/ _aggregate_occurrences_return

\* ------------------------------------------------------- taxa.py: the command
image_counts_flag == collect_gbif_ids
Say(kind, payload) == [kind |-> kind, payload |-> payload]

\* taxa, lines 213-245: the tables are looked up, the requested columns are
\* checked against the occurrence table's, the memory note is printed
taxa_checks ==
  /\ taxa_pc = "command"
  /\ IF IsNone(occ_columns)
     THEN /\ console_out' = Append(console_out, Say("no_occurrence_table", <<>>))
          /\ exit_code' = Some(1)
          /\ taxa_pc' = "exit"
     ELSE IF group_col \notin Range(Get(occ_columns))
     THEN /\ console_out' = console_out \o << Say("column_not_found", <<group_col>>),
                                              Say("available_columns", Get(occ_columns)) >>
          /\ exit_code' = Some(1)
          /\ taxa_pc' = "exit"
     ELSE IF species_only /\ "taxonRank" \notin Range(Get(occ_columns))
     THEN /\ console_out' = Append(console_out, Say("taxonrank_not_found", <<>>))
          /\ exit_code' = Some(1)
          /\ taxa_pc' = "exit"
     ELSE /\ console_out' = IF image_counts_flag /\ ~IsNone(mm_lines)
                            THEN Append(console_out, Say("memory_note", <<>>))
                            ELSE console_out
          /\ exit_code' = exit_code
          /\ taxa_pc' = "start"
  /\ UNCHANGED <<convert_vars, side_vars, taxa_inputs, needed_cols, occ_pos, groups, group_order,
                 command_inputs, image_counts, results, total_groups>>

\* _aggregate_images, lines 106-113, from line pos of the file on
RECURSIVE _aggregate_images_from(_, _, _)
_aggregate_images_from(lines, pos, counts) ==
  IF pos > Len(lines) THEN counts
  ELSE LET row == _read_table_as_dicts(lines[1], lines[pos], <<"gbifID">>)
           gbif_id == DictGet(row, "gbifID", <<>>)
       IN _aggregate_images_from(lines, pos + 1,
            IF gbif_id # <<>> THEN DictSet(counts, gbif_id, DictGet(counts, gbif_id, 0) + 1)
                              ELSE counts)

_aggregate_images(lines) == _aggregate_images_from(lines, FirstDataLine, <<>>)

\* taxa, lines 255-257
taxa_aggregate_images ==
  /\ taxa_pc = "aggregated"
  /\ image_counts' = IF image_counts_flag /\ ~IsNone(mm_lines)
                     THEN _aggregate_images(Get(mm_lines))
                     ELSE <<>>
  /\ taxa_pc' = "images"
  /\ UNCHANGED <<convert_vars, side_vars, taxa_inputs, needed_cols, occ_pos, groups, group_order,
                 command_inputs, results, total_groups, console_out, exit_code>>

\* the characters of the samples in code point order, and ord()
CodePoints == DigitChars \o UpperAlpha \o <<"_">> \o LowerAlpha
ord(c) == CHOOSE i \in 1..Len(CodePoints) : CodePoints[i] = c

\* str < str
RECURSIVE str_lt(_, _)
str_lt(a, b) ==
  IF Len(b) = 0 THEN FALSE
  ELSE IF Len(a) = 0 THEN TRUE
  ELSE IF Head(a) # Head(b) THEN ord(Head(a)) < ord(Head(b))
  ELSE str_lt(Tail(a), Tail(b))

\* the groups ordered by their counts alone
sort_key_lt_count_only(a, b) == a.occurrence_count > b.occurrence_count

\* line 133: (-a.occurrence_count, a.name) < (-b.occurrence_count, b.name)
sort_key_lt(a, b) ==
  \/ a.occurrence_count > b.occurrence_count
  \/ a.occurrence_count = b.occurrence_count /\ str_lt(a.name, b.name)

\* list.sort is stable: an element goes behind those that are not greater
sorted_insert(sorted, x) ==
  LET k == Cardinality({i \in 1..Len(sorted) : ~sort_key_lt(x, sorted[i])})
  IN SubSeq(sorted, 1, k) \o <<x>> \o SubSeq(sorted, k + 1, Len(sorted))
RECURSIVE list_sort(_)
list_sort(s) ==
  IF Len(s) = 0 THEN <<>>
  ELSE sorted_insert(list_sort(SubSeq(s, 1, Len(s) - 1)), s[Len(s)])

\* the identifiers that have an image, counted once each
sum_image_counts_ids_with_images(counts, gids) == Cardinality(gids \cap DOMAIN counts)

\* sum(image_counts.get(gid, 0) for gid in entry.gbif_ids)
RECURSIVE sum_image_counts(_, _)
sum_image_counts(counts, gids) ==
  IF gids = {} THEN 0
  ELSE LET gid == CHOOSE x \in gids : TRUE
       IN DictGet(counts, gid, 0) + sum_image_counts(counts, gids \ {gid})

TaxaResult(name, entry, counts) ==
  [name |-> name,
   occurrence_count |-> entry.count,
   image_count |-> sum_image_counts(counts, entry.gbif_ids),
   n_taxon_ids |-> Cardinality(entry.taxon_ids),
   n_sci_names |-> Cardinality(entry.sci_names)]

\* _build_taxa_results, lines 116-134; order is the dict's iteration order
_build_taxa_results(g, order, counts) ==
  list_sort([i \in 1..Len(order) |-> TaxaResult(order[i], g[order[i]], counts)])

\* taxa, lines 259-260
taxa_build_results ==
  /\ taxa_pc = "images"
  /\ results' = _build_taxa_results(groups, group_order, image_counts)
  /\ total_groups' = Some(Len(results'))
  /\ taxa_pc' = "built"
  /\ UNCHANGED <<convert_vars, side_vars, taxa_inputs, needed_cols, occ_pos, groups, group_order,
                 command_inputs, image_counts, console_out, exit_code>>

\* results[:n]
list_slice_to(s, n) ==
  SubSeq(s, 1, IF n < 0 THEN (IF Len(s) + n > 0 THEN Len(s) + n ELSE 0)
                        ELSE (IF n < Len(s) THEN n ELSE Len(s)))

\* lines 261-262
apply_limit(s) == IF IsNone(limit) THEN s ELSE list_slice_to(s, Get(limit))

\* taxa, lines 261-265, and _display_taxa_table: the rows and the line of
\* group counts
taxa_display ==
  /\ taxa_pc = "built"
  /\ results' = apply_limit(results)
  /\ console_out' = console_out \o
       << Say("table", results'),
          Say("unique_groups", <<Len(results'), Get(total_groups)>>) >>
  /\ exit_code' = Some(0)
  /\ taxa_pc' = "exit"
  /\ UNCHANGED <<convert_vars, side_vars, taxa_inputs, needed_cols, occ_pos, groups, group_order,
                 command_inputs, image_counts, total_groups>>

NextTaxaCommand ==
  \/ taxa_checks
  \/ _aggregate_occurrences_begin
  \/ _aggregate_occurrences_row
  \/ _aggregate_occurrences_return
  \/ taxa_aggregate_images
  \/ taxa_build_results
  \/ taxa_display

\* ------------------------------------------- convert.py: one batch task's steps
\* _pg_copy_chunk as the statements a worker thread runs, for the tasks of
\* one table that the pool runs side by side
CopyTasks == 1..copy_n
CopyFaults == {FALSE, TRUE}
NewConnection(t) == [owner |-> t, state |-> "open", closes |-> 0, users |-> {}, pending |-> {}]

\* every task handed the connection the first one opened
raw_connection_shared == IF Len(connections) = 0 THEN Len(connections) + 1 ELSE Len(connections)

\* engine.raw_connection(): the connection returned, here always a further one
raw_connection == Len(connections) + 1

\* lines 150-156: the buffer is built; a row too short raises IndexError
_pg_copy_chunk_buffer(t) ==
  /\ copy_pc[t] = "buffer"
  /\ \E fault \in CopyFaults :
       copy_pc' = [copy_pc EXCEPT ![t] = IF fault THEN "raised" ELSE "connect"]
  /\ UNCHANGED <<convert_vars, taxa_vars, command_vars, count_vars, poll_vars,
                 copy_n, copy_conn, connections, copy_db>>

\* line 158: conn = engine.raw_connection(), outside the try
_pg_copy_chunk_connect(t) ==
  /\ copy_pc[t] = "connect"
  /\ \E fault \in CopyFaults :
       IF fault
       THEN /\ copy_pc' = [copy_pc EXCEPT ![t] = "raised"]
            /\ UNCHANGED <<copy_conn, connections>>
       ELSE /\ copy_conn' = [copy_conn EXCEPT ![t] = raw_connection]
            /\ connections' = IF raw_connection > Len(connections)
                              THEN Append(connections, NewConnection(t))
                              ELSE connections
            /\ copy_pc' = [copy_pc EXCEPT ![t] = "copy"]
  /\ UNCHANGED <<convert_vars, taxa_vars, command_vars, count_vars, poll_vars, copy_n, copy_db>>

\* lines 160-166: conn.cursor() and copy_expert; the batch joins the
\* connection's open transaction, or the call raises (always on a closed
\* connection)
_pg_copy_chunk_copy(t) ==
  /\ copy_pc[t] = "copy"
  /\ LET c == copy_conn[t]
     IN \E fault \in CopyFaults :
          IF fault \/ connections[c].state = "closed"
          THEN /\ connections' = [connections EXCEPT ![c].users = @ \cup {t}]
               /\ copy_pc' = [copy_pc EXCEPT ![t] = "finally_raise"]
          ELSE /\ connections' = [connections EXCEPT ![c].users = @ \cup {t},
                                                     ![c].pending = @ \cup {t}]
               /\ copy_pc' = [copy_pc EXCEPT ![t] = "commit"]
  /\ UNCHANGED <<convert_vars, taxa_vars, command_vars, count_vars, poll_vars,
                 copy_n, copy_conn, copy_db>>

\* line 167: conn.commit() makes the connection's open transaction durable
_pg_copy_chunk_commit(t) ==
  /\ copy_pc[t] = "commit"
  /\ LET c == copy_conn[t]
     IN \E fault \in CopyFaults :
          IF fault \/ connections[c].state = "closed"
          THEN /\ copy_pc' = [copy_pc EXCEPT ![t] = "finally_raise"]
               /\ UNCHANGED <<connections, copy_db>>
          ELSE /\ copy_db' = copy_db \cup connections[c].pending
               /\ connections' = [connections EXCEPT ![c].pending = {}]
               /\ copy_pc' = [copy_pc EXCEPT ![t] = "finally"]
  /\ UNCHANGED <<convert_vars, taxa_vars, command_vars, count_vars, poll_vars, copy_n, copy_conn>>

\* lines 168-169: finally conn.close(); what was not committed is rolled
\* back, then the function returns or the exception goes on
_pg_copy_chunk_close(t) ==
  /\ copy_pc[t] \in {"finally", "finally_raise"}
  /\ LET c == copy_conn[t]
     IN connections' = [connections EXCEPT ![c].state = "closed",
                                           ![c].closes = @ + 1,
                                           ![c].users = @ \cup {t},
                                           ![c].pending = {}]
  /\ copy_pc' = [copy_pc EXCEPT ![t] = IF copy_pc[t] = "finally" THEN "done" ELSE "raised"]
  /\ UNCHANGED <<convert_vars, taxa_vars, command_vars, count_vars, poll_vars,
                 copy_n, copy_conn, copy_db>>

NextCopy ==
  \E t \in CopyTasks :
    \/ _pg_copy_chunk_buffer(t)
    \/ _pg_copy_chunk_connect(t)
    \/ _pg_copy_chunk_copy(t)
    \/ _pg_copy_chunk_commit(t)
    \/ _pg_copy_chunk_close(t)

\* ------------------------------------- convert.py: counting, block by block
\* _count_newlines on the bytes of one file object
BlockSize == 2
LF == "\n"

\* one for a buffer that holds the byte at all
bytes_count_any(buf, b) == IF b \in Range(buf) THEN 1 ELSE 0

\* bytes.count for a single byte
bytes_count(buf, b) == Cardinality({i \in 1..Len(buf) : buf[i] = b})

\* lines 81-85 and 88-91: reader(2**16) returned a non-empty buffer (a full
\* block, or fewer bytes than asked for), whose line feeds are added
_count_newlines_block ==
  /\ count_pc = "reading"
  /\ stream_pos < Len(stream)
  /\ \E size \in 1..BlockSize :
       /\ stream_pos + size <= Len(stream)
       /\ LET buf == SubSeq(stream, stream_pos + 1, stream_pos + size)
          IN total' = total + bytes_count(buf, LF)
       /\ stream_pos' = stream_pos + size
       /\ read_sizes' = Append(read_sizes, size)
  /\ UNCHANGED <<convert_vars, taxa_vars, command_vars, copy_vars, poll_vars, stream, count_pc>>

\* lines 82-84 and 92: reader(2**16) returned b"", the generator ends and
\* total is returned
_count_newlines_return ==
  /\ count_pc = "reading"
  /\ stream_pos = Len(stream)
  /\ read_sizes' = Append(read_sizes, 0)
  /\ count_pc' = "returned"
  /\ UNCHANGED <<convert_vars, taxa_vars, command_vars, copy_vars, poll_vars,
                 stream, stream_pos, total>>

NextCount ==
  \/ _count_newlines_block
  \/ _count_newlines_return

\* ------------------------------------------------------------- download.py
\* poll_until_complete; what get_download_status may bring back: a status
\* that ends the polling, one that does not ("UNKNOWN" for a reply without
\* the key), or an HTTP error raised
Failures == {"KILLED", "CANCELLED", "FAILED"}
NonTerminal == {"RUNNING", "PREPARING", "UNKNOWN"}
Replies == {"SUCCEEDED"} \cup Failures \cup NonTerminal \cup {"HTTPError"}

\* a wait after every poll that ended nothing
waits_after_always(i) == TRUE

\* line 185
waits_after(i) == i < max_polls - 1

\* lines 174-183: one status request and what it leads to
poll_until_complete_poll ==
  /\ poll_pc = "loop"
  /\ poll_i < max_polls
  /\ \E status \in Replies :
       /\ poll_log' = Append(poll_log, status)
       /\ poll_pc' = CASE status = "HTTPError" -> "raised"
                       [] status = "SUCCEEDED" -> "returned"
                       [] status \in Failures -> "exit_failed"
                       [] OTHER -> "next"
  /\ UNCHANGED <<convert_vars, taxa_vars, command_vars, copy_vars, count_vars, max_polls, poll_i>>

\* lines 185-187 and the loop's step: time.sleep(poll_interval) unless this
\* was the last poll allowed
poll_until_complete_wait ==
  /\ poll_pc = "next"
  /\ poll_log' = IF waits_after(poll_i) THEN Append(poll_log, "wait") ELSE poll_log
  /\ poll_i' = poll_i + 1
  /\ poll_pc' = "loop"
  /\ UNCHANGED <<convert_vars, taxa_vars, command_vars, copy_vars, count_vars, max_polls>>

\* lines 189-191: range(max_polls) is exhausted
poll_until_complete_max_polls ==
  /\ poll_pc = "loop"
  /\ poll_i >= max_polls
  /\ poll_log' = Append(poll_log, "max_polls_reached")
  /\ poll_pc' = "exit_max_polls"
  /\ UNCHANGED <<convert_vars, taxa_vars, command_vars, copy_vars, count_vars, max_polls, poll_i>>

NextPoll ==
  \/ poll_until_complete_poll
  \/ poll_until_complete_wait
  \/ poll_until_complete_max_polls

\* ------------------------------------------------------------ initial states
DeclaredTables(m) == (IF IsNone(m.core) THEN 0 ELSE 1) + Len(m.extensions)

\* the state convert() starts in, for given inputs: an empty destination
InitConvert(m, files, endings, d, size, threads, coi, idx) ==
  /\ manifest = m
  /\ zip_files = files
  /\ line_ending = endings
  /\ dialect = d
  /\ chunk_size = size
  /\ num_threads = threads
  /\ columns_of_interest = coi
  /\ indexes = idx
  /\ pc = "parse"
  /\ error = None
  /\ tables = <<>>
  /\ table_row_counts = <<>>
  /\ cur = 0
  /\ schema = <<>>
  /\ committed = <<>>
  /\ db_indexes = {}
  /\ session_replication_role = "origin"
  /\ selected = None
  /\ reader_pos = 1
  /\ queue = <<>>
  /\ running = [w \in 1..threads |-> None]
  /\ futures = [t \in 1..DeclaredTables(m) |-> <<>>]
  /\ inspected = [t \in 1..DeclaredTables(m) |-> {}]
  /\ yielded = [t \in 1..DeclaredTables(m) |-> <<>>]
  /\ exhausted = [t \in 1..DeclaredTables(m) |-> FALSE]
  /\ loaded = [t \in 1..DeclaredTables(m) |-> FALSE]
  /\ failed_batches = {}
  /\ toggles = <<>>
  /\ success = FALSE
  /\ est_queue = <<>>
  /\ est_running = [w \in 1..threads |-> None]
  /\ est_futures = <<>>
  /\ est_inspected = {}
  /\ total_rows = [t \in 1..DeclaredTables(m) |-> None]

\* no batch task, no counting and no polling is under way
CopyIdle ==
  /\ copy_n = 0
  /\ copy_pc = <<>>
  /\ copy_conn = <<>>
  /\ connections = <<>>
  /\ copy_db = {}
CountIdle ==
  /\ stream = <<>>
  /\ stream_pos = 0
  /\ read_sizes = <<>>
  /\ total = 0
  /\ count_pc = "idle"
PollIdle ==
  /\ max_polls = 0
  /\ poll_i = 0
  /\ poll_pc = "idle"
  /\ poll_log = <<>>
SideIdle == CopyIdle /\ CountIdle /\ PollIdle

\* taxa() has not been called
CommandIdle ==
  /\ occ_columns = None
  /\ mm_lines = None
  /\ limit = None
  /\ image_counts = <<>>
  /\ results = <<>>
  /\ total_groups = None
  /\ console_out = <<>>
  /\ exit_code = None

\* the taxa command is not running
TaxaIdle ==
  /\ occ_lines = <<>>
  /\ group_col = "scientificName"
  /\ show_mismatched_names = FALSE
  /\ species_only = FALSE
  /\ collect_gbif_ids = FALSE
  /\ taxa_pc = "idle"
  /\ needed_cols = <<>>
  /\ occ_pos = 0
  /\ groups = <<>>
  /\ group_order = <<>>
  /\ CommandIdle

InitState(m, files, endings, d, size, threads, coi, idx) ==
  /\ InitConvert(m, files, endings, d, size, threads, coi, idx)
  /\ TaxaIdle
  /\ SideIdle

\* an archive whose entries all end every line in a line feed
InitWith(m, files, d, size, threads, coi, idx) ==
  InitState(m, files, [f \in DOMAIN files |-> "lf"], d, size, threads, coi, idx)

\* sample archive: table i is file "t<i>.txt" with the columns k, v and an
\* unindexed documentation field; row r of a file holds the fields "r<r>f1", "r<r>f2"
ColK == <<"k">>
ColV == <<"v">>
ColDoc == <<"d","o","c">>
TermOf(name) == <<"d","w","c","/">> \o name
SampleName(i) == <<"t", DigitChars[i + 1]>>
SampleFile(i) == SampleName(i) \o <<".","t","x","t">>
FieldText(r, j) == <<"r", DigitChars[r + 1], "f", DigitChars[j + 1]>>
SampleFields == << [index |-> Some(<<"0">>), term |-> Some(TermOf(ColK))],
                   [index |-> Some(<<"1">>), term |-> Some(TermOf(ColV))],
                   [index |-> None, term |-> Some(TermOf(ColDoc))] >>
SampleDecl(i) == [location |-> Some(SampleFile(i)), fields |-> SampleFields]
SampleManifest(n) ==
  [core |-> Some(SampleDecl(1)), extensions |-> [i \in 1..(n - 1) |-> SampleDecl(i + 1)]]
SampleHeader == <<ColK, ColV>>
SampleRow(r) == <<FieldText(r, 1), FieldText(r, 2)>>
SampleLines(rows) == <<SampleHeader>> \o [r \in 1..rows |-> SampleRow(r)]
SampleFiles(n, rows) ==
  [f \in {SampleFile(i) : i \in 1..n} |->
     SampleLines(rows[CHOOSE i \in 1..n : SampleFile(i) = f])]
\* a per-table setting, configured for the tables in S
SettingFor(S, value) == [name \in {SampleName(i) : i \in S} |-> value]

RECURSIVE SumTo(_, _)
SumTo(f, n) == IF n = 0 THEN 0 ELSE f[n] + SumTo(f, n - 1)

\* archives of up to MaxTables tables holding up to MaxRows data rows in all,
\* either engine, settings that configure no table or the core table only
Init ==
  \E n \in 1..MaxTables :
    \E rows \in {f \in [1..n -> 0..MaxRows] : SumTo(f, n) <= MaxRows},
       d \in {"postgresql", "sqlite"},
       size \in 1..MaxChunk, threads \in 1..MaxThreads, S \in {{}, {1}} :
      InitWith(SampleManifest(n), SampleFiles(n, rows), d, size, threads,
               SettingFor(S, <<ColV>>), SettingFor(S, <<ColK, ColDoc>>))

Spec == Init /\ [][Next]_vars

\* ------------------------------------------------------------------ claims
Defs == 1..Len(tables)
SourceLines(t) == zip_files[tables[t].filename]
SourceHeader(t) == SourceLines(t)[1]
SourceRows(t) == Tail(SourceLines(t))
TableFutures(t) == DOMAIN futures[t]

RECURSIVE Flatten(_)
Flatten(ss) == IF Len(ss) = 0 THEN <<>> ELSE Head(ss) \o Flatten(Tail(ss))
YieldedRows(t) == Flatten([i \in 1..Len(yielded[t]) |-> yielded[t][i].chunk])

\* a source row reduced to the columns cols, as (column, value) items
ProjectedRow(header, cols, row) ==
  [k \in 1..Len(cols) |-> <<cols[k], row[IndexOf(header, cols[k])]>>]
TransferredColumns(t) == filter_columns(SourceHeader(t), select_columns(tables[t].name))
ProjectedSource(t) ==
  [r \in 1..Len(SourceRows(t)) |->
     ProjectedRow(SourceHeader(t), TransferredColumns(t), SourceRows(t)[r])]

\* C1: load completeness.  Once a table's insert function has returned
\* normally, the destination table holds exactly the data rows of the table's
\* file projected to the transferred columns, each once, on either path and
\* whatever order the workers finished in.
C1_LoadCompleteness ==
  \A t \in Defs : loaded[t] => committed[tables[t].name] = BagOfSeq(ProjectedSource(t))

\* a COPY load of at least three batches over two workers ran to the end, with
\* a configured column subset
C1_Witness ==
  /\ success /\ use_pg /\ num_threads >= 2
  /\ \E t \in Defs : /\ Len(futures[t]) >= 3
                     /\ ~IsNone(select_columns(tables[t].name))
                     /\ committed[tables[t].name] = BagOfSeq(ProjectedSource(t))

\* C5: success is reported only after every submitted batch task has finished
\* and its outcome was inspected.  _pg_insert_table has returned for a table
\* only if each of its futures finished without error and its result was taken;
\* the success message implies that for every table, with nothing queued or running.
C5_SuccessAfterAllInspected ==
  /\ \A t \in Defs :
       loaded[t] => \A f \in TableFutures(t) : futures[t][f] = "ok" /\ f \in inspected[t]
  /\ success =>
       /\ ~InFlight
       /\ \A t \in Defs : /\ loaded[t]
                          /\ \A f \in TableFutures(t) : futures[t][f] = "ok" /\ f \in inspected[t]

\* success was reported after a COPY load of two tables, one of several batches
C5_Witness ==
  /\ success /\ use_pg /\ Len(tables) >= 2
  /\ \E t \in Defs : Len(futures[t]) >= 2
  /\ \A t \in Defs : inspected[t] = TableFutures(t)

\* C8: read_chunks partitions the data rows into consecutive batches.  While a
\* file is read, every batch but the last yielded so far has exactly chunk_size
\* rows, no batch is empty or longer, every batch is paired with the header
\* line, and the batches concatenated are a prefix of the data rows (the header
\* line is not among them); when the generator is exhausted there are
\* ceil(N / chunk_size) batches, only the last may be short, and the
\* concatenation is all N data rows in file order.
C8_ChunksPartitionRows ==
  \A t \in Defs :
    LET ys == yielded[t]
        N == Len(SourceRows(t))
    IN /\ \A i \in 1..Len(ys) :
            /\ ys[i].headers = SourceHeader(t)
            /\ Len(ys[i].chunk) >= 1
            /\ Len(ys[i].chunk) <= chunk_size
            /\ i < Len(ys) => Len(ys[i].chunk) = chunk_size
       /\ Len(YieldedRows(t)) <= N
       /\ YieldedRows(t) = SubSeq(SourceRows(t), 1, Len(YieldedRows(t)))
       /\ exhausted[t] =>
            /\ YieldedRows(t) = SourceRows(t)
            /\ Len(ys) = (N + chunk_size - 1) \div chunk_size
            /\ \A i \in 1..Len(ys) :
                 Len(ys[i].chunk) = chunk_size \/ (i = Len(ys) /\ Len(ys[i].chunk) = N % chunk_size)

\* a file whose row count is no multiple of the batch size was read to the end:
\* full batches, then a short one
C8_Witness ==
  \E t \in Defs :
    /\ exhausted[t] /\ chunk_size >= 2
    /\ Len(yielded[t]) >= 2
    /\ Len(yielded[t][Len(yielded[t])].chunk) < chunk_size

\* every batch of table_def t has completed: the whole file was read and each
\* batch was committed
BatchesCompleted(t) ==
  /\ exhausted[t]
  /\ \A f \in TableFutures(t) : futures[t][f] = "ok"
  /\ \A b \in 1..Len(yielded[t]) : <<t, b>> \notin failed_batches
IndexesOf(t) == {x \in db_indexes : x[1] = tables[t].name}
Started(t) == Len(yielded[t]) > 0 \/ exhausted[t]

\* C10: the stages run in order.  A schema exists only after the manifest was
\* parsed; row counts exist only once every table exists; a table is read or
\* loaded only when every destination table exists and every row count is
\* known, and when every earlier table of the manifest has completed all its
\* batches and passed its index stage; a table has an index only if all its
\* batches have completed.
C10_StagesInOrder ==
  /\ DOMAIN schema # {} => Len(tables) > 0
  /\ DOMAIN table_row_counts # {} => \A t \in Defs : tables[t].name \in DOMAIN schema
  /\ \A t \in Defs :
       /\ Started(t) =>
            /\ \A u \in Defs : /\ tables[u].name \in DOMAIN schema
                               /\ tables[u].name \in DOMAIN table_row_counts
            /\ \A u \in 1..(t - 1) : BatchesCompleted(u) /\ cur > u
            /\ cur >= t
       /\ IndexesOf(t) # {} => BatchesCompleted(t)
       /\ cur > t => BatchesCompleted(t)

\* the second table is being loaded by workers after the first was loaded and indexed
C10_Witness ==
  /\ Len(tables) >= 2 /\ use_pg /\ InFlight
  /\ cur = 2 /\ IndexesOf(1) # {} /\ Len(yielded[1]) >= 2

TableFailed(t) == \E x \in failed_batches : x[1] = t
InsertDataEnded == pc \in {"summarize", "done", "raised"}
HeldBatches == Len(queue) + Cardinality({w \in Workers : ~IsNone(running[w])})

\* C2: a failing batch aborts its table's conversion.  Once a batch of a table
\* has failed, success is never reported, the table's insert function never
\* returns normally, the table gets no index, and no batch of that table is
\* committed from then on.
C2_AbortOnBatchFailure ==
  /\ [](\A t \in Defs : TableFailed(t) => ~success /\ ~loaded[t] /\ IndexesOf(t) = {})
  /\ [][\A t \in Defs :
          TableFailed(t) => committed'[tables[t].name] = committed[tables[t].name]]_vars

\* C3: on the COPY path, when insert_data has returned or raised, enforcement
\* is back on: session_replication_role is 'origin'.
C3_EnforcementRestored ==
  InsertDataEnded => session_replication_role = "origin"

\* the scoping part of C6: at most one disable then one restore; nothing is
\* read, queued or running before the disable or after the restore; the
\* restore comes only when every table's batches have completed
C6_ToggleScope ==
  /\ ~use_pg => toggles = <<>>
  /\ toggles \in {<<>>, <<"replica">>, <<"replica", "origin">>}
  /\ use_pg /\ (InFlight \/ \E t \in Defs : Started(t)) => Len(toggles) >= 1
  /\ InFlight => Len(toggles) < 2
  /\ Len(toggles) = 2 => \A t \in Defs : BatchesCompleted(t)

\* C6: the toggle is scoped to the whole multi-table load.  Enforcement is
\* disabled exactly once, before the first batch is submitted, and restored
\* exactly once, after the last batch of the last table; it never changes while
\* a batch is queued or running; a load that disabled it has, when insert_data
\* ends, restored it.
C6_ToggleScopedToLoad ==
  /\ C6_ToggleScope
  /\ InsertDataEnded /\ Len(toggles) >= 1 => toggles = <<"replica", "origin">>

\* C7: the batches read from the archive and still held (queued for a worker
\* or being copied by one) never exceed one per worker plus the one being read,
\* however many batches the table has.
C7_HeldBatchesBounded == HeldBatches <= num_threads + 1

\* ------------------------------------------------- identifier validation runs
\* the safe-identifier pattern: a letter or underscore, then letters, digits
\* and underscores
SafeIdentifier(name) ==
  /\ Len(name) >= 1
  /\ IsIdentStart(name[1])
  /\ \A i \in 2..Len(name) : IsIdentChar(name[i])

HasUnsafeName(tbls) ==
  \E t \in 1..Len(tbls) :
    \/ ~SafeIdentifier(tbls[t].name)
    \/ \E c \in 1..Len(tbls[t].columns) :
         ~IsNone(tbls[t].columns[c].index) /\ ~SafeIdentifier(tbls[t].columns[c].name)

TableNameSamples == { <<"t","1">>, <<"O","c","c">>, <<"1","t">>, <<"t",";","x">> }
ColumnNameSamples == { <<"k">>, <<"_","k","1">>, <<"1","k">>, <<"k",";">>, <<"k","\n">>, <<>> }
UnsafeDocName == <<"d",";">>
NamedFile(name) == name \o <<".","t","x","t">>
NamedDecl(name, col) ==
  [location |-> Some(NamedFile(name)),
   fields |-> << [index |-> Some(<<"0">>), term |-> Some(TermOf(col))],
                 [index |-> None, term |-> Some(TermOf(UnsafeDocName))] >>]
NamedManifest(n, names, cols) ==
  [core |-> Some(NamedDecl(names[1], cols[1])),
   extensions |-> [i \in 1..(n - 1) |-> NamedDecl(names[i + 1], cols[i + 1])]]
NamedFiles(n, names, cols) ==
  [f \in {NamedFile(names[i]) : i \in 1..n} |->
     LET i == CHOOSE i \in 1..n : NamedFile(names[i]) = f
     IN << <<cols[i]>>, <<FieldText(1, 1)>> >>]

\* archives of one or two tables with distinct sample names, each with one
\* indexed column of a sample name and one unindexed column of an unsafe name,
\* one data row per file
InitSchema ==
  \E n \in 1..2 :
    \E names \in {f \in [1..n -> TableNameSamples] : \A i, j \in 1..n : f[i] = f[j] => i = j},
       cols \in [1..n -> ColumnNameSamples],
       d \in {"postgresql", "sqlite"} :
      InitWith(NamedManifest(n, names, cols), NamedFiles(n, names, cols), d, 1, 1, <<>>, <<>>)

SpecSchema == InitSchema /\ [][Next]_vars

\* C4: a table name, or the name of a column with a non-null index, that does
\* not match the safe-identifier pattern makes schema creation fail with
\* ValueError; every table is checked before any statement runs, so the
\* destination has no table and no row, and nothing was read.
C4_UnsafeNamesRejected ==
  (pc \notin {"parse", "schema"} /\ HasUnsafeName(tables)) =>
    /\ pc = "raised"
    /\ error = Some("ValueError")
    /\ DOMAIN schema = {}
    /\ DOMAIN committed = {}
    /\ \A t \in Defs : ~Started(t)

\* ------------------------------------------------------------ row shape runs
ShapedRow(r, width) == [j \in 1..width |-> FieldText(r, j)]
ShapedLines(widths) == <<SampleHeader>> \o [r \in 1..Len(widths) |-> ShapedRow(r, widths[r])]
RowWidths == {1, 2, 3}

\* one table of one or two data rows of one, two or three fields under a
\* two-column header; every column, the first or the second transferred
InitRows ==
  \E n \in 1..2 :
    \E widths \in [1..n -> RowWidths], d \in {"postgresql", "sqlite"}, size \in 1..2,
       coi \in {<<>>, SettingFor({1}, <<ColK>>), SettingFor({1}, <<ColV>>)} :
      InitWith(SampleManifest(1), [f \in {SampleFile(1)} |-> ShapedLines(widths)],
               d, size, 1, coi, <<>>)

SpecRows == InitRows /\ [][Next]_vars

Misshapen(t) ==
  \E r \in 1..Len(SourceRows(t)) : Len(SourceRows(t)[r]) # Len(SourceHeader(t))

\* C9: a table holding a data row with more or fewer fields than the header is
\* never loaded: its insert function does not return normally and the run
\* does not report success.
C9_RowLengthMismatchFails ==
  \A t \in Defs : Misshapen(t) => ~loaded[t] /\ ~success

\* --------------------------------------------------------- row-count estimation
CountingTasks == {w \in EstWorkers : ~IsNone(est_running[w])}
EstimationReturned ==
  pc \notin {"parse", "schema", "estimate", "est_await", "est_unwind", "raised"}

\* C14: row-count estimation.  At most num_threads counting tasks run at any
\* time, no two of them on the same table_def (each reads the handle it
\* opened); whatever the order the tasks start and finish in, every entry of
\* the mapping is the line-feed count of the file of a table_def of that name
\* whose result was taken, and the mapping returned has an entry for every
\* table definition holding the count of that table's own file.
C14_EstimationCounts ==
  /\ Cardinality(CountingTasks) <= num_threads
  /\ \A v, w \in CountingTasks : est_running[v] = est_running[w] => v = w
  /\ \A f \in est_inspected :
       /\ tables[f].name \in DOMAIN table_row_counts
       /\ table_row_counts[tables[f].name] = _count_newlines(tables[f].filename)
  /\ \A name \in DOMAIN table_row_counts : \E f \in est_inspected : tables[f].name = name
  /\ EstimationReturned =>
       \A t \in Defs : /\ tables[t].name \in DOMAIN table_row_counts
                       /\ table_row_counts[tables[t].name] = _count_newlines(tables[t].filename)

\* a pool of two workers returned the counts of two files of different lengths
C14_Witness ==
  /\ EstimationReturned /\ Len(tables) >= 2 /\ num_threads >= 2
  /\ table_row_counts[tables[1].name] # table_row_counts[tables[2].name]


LineEndings == {"lf", "lf_open", "cr"}
EstimateRows == 2

\* archives of one or two tables of up to EstimateRows data rows whose files
\* end their lines in any of the three ways: the estimate of a table of N data
\* rows is N + 1, N or 0
InitEstimate ==
  \E n \in 1..2 :
    \E rows \in [1..n -> 0..EstimateRows],
       endings \in [{SampleFile(i) : i \in 1..n} -> LineEndings],
       d \in {"postgresql", "sqlite"}, size \in 1..2 :
      InitState(SampleManifest(n), SampleFiles(n, rows), endings, d, size, 1, <<>>, <<>>)

SpecEstimate == InitEstimate /\ [][Next]_vars

\* C15: the estimate decides nothing but the progress total.  Whatever the
\* estimate of a table is (above, equal to or below its number of data rows,
\* or zero), the total its progress task is given is that estimate, the reader
\* is exhausted only after yielding every data row, a load that returned has
\* committed exactly the file's rows, and a run that began loading ends with an
\* exception only when the destination rejected a statement or a row was too
\* short: rows and outcome are those of the archive's rows alone, so two runs
\* that differ only in the estimate agree on them.
C15_EstimateOnlyForProgress ==
  /\ \A t \in Defs :
       /\ ~IsNone(total_rows[t]) =>
            /\ tables[t].name \in DOMAIN table_row_counts
            /\ Get(total_rows[t]) = table_row_counts[tables[t].name]
       /\ exhausted[t] => YieldedRows(t) = SourceRows(t)
       /\ loaded[t] => committed[tables[t].name] = BagOfSeq(ProjectedSource(t))
  /\ (pc = "raised" /\ cur >= 1) => error \in {Some("BackendError"), Some("IndexError")}

\* a run succeeded that loaded a table of two rows estimated at zero and a
\* table estimated above its row count
C15_Witness ==
  /\ success
  /\ \E t, u \in Defs :
       /\ Len(SourceRows(t)) = 2 /\ total_rows[t] = Some(0)
       /\ Get(total_rows[u]) > Len(SourceRows(u))
       /\ loaded[t] /\ loaded[u]

\* --------------------------------------------------------------- manifest runs
ColM == <<"m">>
RowTypeOf(i) == <<"t","d","w","g","/">> \o (IF i = 1 THEN <<"O","c","c">> ELSE <<"M","e","d","i","a">>)
\* locations: plain, in a directory and in upper case, with two dots, without
\* extension; the element absent (None) or empty
LocationSamples ==
  { Some(<<"t","1",".","t","x","t">>),
    Some(<<"D","i","r","/","T","1",".","T","X","T">>),
    Some(<<"t","2",".","v","2",".","t","x","t">>),
    Some(<<"a","/","b","/","t","3">>),
    Some(<<>>),
    None }
\* field lists: indexed terms; a term-less field, a field with an empty term
\* and an unindexed term; a term with no "/" and one with several
FieldSamples ==
  { << [index |-> Some(<<"0">>), term |-> Some(TermOf(ColK))],
       [index |-> Some(<<"1">>), term |-> Some(TermOf(ColV))] >>,
    << [index |-> Some(<<"0">>), term |-> Some(TermOf(ColK))],
       [index |-> None, term |-> None],
       [index |-> None, term |-> Some(<<>>)],
       [index |-> None, term |-> Some(TermOf(ColDoc))] >>,
    << [index |-> Some(<<"0">>), term |-> Some(ColM)],
       [index |-> Some(<<"1">>), term |-> Some(<<"a","/","b","/">> \o ColV)] >> }
DeclSamples(i) ==
  {[location |-> l, fields |-> fs, rowType |-> RowTypeOf(i)] : l \in LocationSamples, fs \in FieldSamples}
HasFile(decl) == ~IsNone(decl.location) /\ Len(Get(decl.location)) > 0
\* the file of a declaration: its indexed columns as header, one data row
DeclLines(decl) ==
  LET stored == SelectSeq(decl.fields, LAMBDA f : ~IsNone(f.index)) IN
  << [k \in 1..Len(stored) |-> LastSegment(Get(stored[k].term), "/")],
     [k \in 1..Len(stored) |-> FieldText(1, k)] >>
ManifestFiles(decls) ==
  [f \in {Get(decls[i].location) : i \in {j \in 1..Len(decls) : HasFile(decls[j])}} |->
     DeclLines(decls[CHOOSE i \in 1..Len(decls) : HasFile(decls[i]) /\ Get(decls[i].location) = f])]

\* manifests with or without a core element and with at most one extension,
\* each declaration with a sample location and a sample field list; two
\* declarations never name the same file, but their table names may coincide
InitManifest ==
  \E core \in {None} \cup {Some(x) : x \in DeclSamples(1)},
     exts \in {<<>>} \cup {<<x>> : x \in DeclSamples(2)},
     d \in {"postgresql", "sqlite"} :
    LET decls == core \o exts IN
    /\ \A i, j \in 1..Len(decls) :
         (HasFile(decls[i]) /\ HasFile(decls[j]) /\ decls[i].location = decls[j].location) => i = j
    /\ InitWith([core |-> core, extensions |-> exts], ManifestFiles(decls), d, 1, 1, <<>>, <<>>)

SpecManifest == InitManifest /\ [][Next]_vars

\* the declarations of the manifest, the core element first
Declared == manifest.core \o manifest.extensions
Parsed == pc # "parse"

\* name is what follows the last "/" of text, or all of text when it has none
IsFinalSegment(name, text) ==
  /\ "/" \notin Range(name)
  /\ Len(name) <= Len(text)
  /\ SubSeq(text, Len(text) - Len(name) + 1, Len(text)) = name
  /\ Len(name) < Len(text) => text[Len(text) - Len(name)] = "/"

ColumnsAre(cols, fields) ==
  /\ Len(cols) = Len(fields)
  /\ \A k \in 1..Len(fields) :
       /\ cols[k].index = fields[k].index
       /\ IsFinalSegment(cols[k].name, Get(fields[k].term))

\* the file a declaration names: its location, or the sentinel
DeclaredFile(decl) ==
  IF IsNone(decl.location) \/ decl.location = Some(<<>>)
  THEN <<"U","n","k","n","o","w","n">> ELSE Get(decl.location)

\* table i is the table of declaration i
TablesFollowManifest ==
  /\ Len(tables) = Len(Declared)
  /\ \A i \in 1..Len(Declared) : tables[i].filename = DeclaredFile(Declared[i])

\* C17 as stated: one TableDefinition per declared table, the core first, then
\* the extensions in manifest order; a table's columns are, in declaration
\* order, the declared fields that carry a term attribute, each with its
\* declared index and the final path segment of its term as name.
C17_FieldsWithTermAttribute ==
  Parsed =>
    /\ TablesFollowManifest
    /\ \A i \in 1..Len(Declared) :
         ColumnsAre(tables[i].columns,
                    SelectSeq(Declared[i].fields, LAMBDA f : ~IsNone(f.term)))

\* C17 amended: the same, the columns being the declared fields whose term
\* attribute is present and not empty.
C17_FieldsWithNonEmptyTerm ==
  Parsed =>
    /\ TablesFollowManifest
    /\ \A i \in 1..Len(Declared) :
         ColumnsAre(tables[i].columns,
                    SelectSeq(Declared[i].fields,
                              LAMBDA f : ~IsNone(f.term) /\ Get(f.term) # <<>>))

\* a core and an extension were parsed, one of them declaring a field without
\* term, a field with an empty term and an unindexed field
C17_Witness ==
  /\ Parsed /\ Len(tables) = 2 /\ ~IsNone(manifest.core)
  /\ tables[1].filename # tables[2].filename
  /\ \E i \in 1..2 : /\ Len(Declared[i].fields) = 4
                     /\ Len(tables[i].columns) = 2
                     /\ IsNone(tables[i].columns[2].index)

\* name is the part of the base name of filename before its first ".", in lower case
IsTableNameOf(name, filename) ==
  \E b \in 0..Len(filename) :
    LET base == SubSeq(filename, b + 1, Len(filename)) IN
    /\ IsFinalSegment(base, filename)
    /\ "." \notin Range(name)
    /\ Len(name) <= Len(base)
    /\ \A k \in 1..Len(name) : name[k] = LowerChar(base[k])
    /\ Len(name) < Len(base) => base[Len(name) + 1] = "."

\* C18: a table is named after its file location only.  The file name is the
\* location when the element is present and not empty, else the sentinel
\* "Unknown"; the table name is the file's base name (directories removed)
\* up to its first ".", in lower case, whatever the rowType attribute says;
\* a manifest with an absent or empty location is parsed like any other.
C18_NameFromLocation ==
  Parsed =>
    /\ Len(tables) = Len(Declared)
    /\ \A i \in 1..Len(Declared) :
         /\ tables[i].filename = DeclaredFile(Declared[i])
         /\ IsTableNameOf(tables[i].name, tables[i].filename)

\* a manifest was parsed whose core has no location and whose extension lies
\* in a directory under an upper-case name
C18_Witness ==
  /\ Parsed /\ Len(tables) = 2
  /\ IsNone(Declared[1].location)
  /\ tables[1].name = <<"u","n","k","n","o","w","n">>
  /\ Declared[2].location = Some(<<"D","i","r","/","T","1",".","T","X","T">>)
  /\ tables[2].name = <<"t","1">>

StoredColumns(t) ==
  LET stored == SelectSeq(tables[t].columns, LAMBDA c : ~IsNone(c.index))
  IN [k \in 1..Len(stored) |-> stored[k].name]
SameName(t) == {u \in Defs : tables[u].name = tables[t].name}

EstimationFailed(f) == est_futures[f].state \in {"KeyError", "OSError"}

\* C16: a failure while estimating a table's row count does not abort the
\* run.  When a counting task has failed, convert neither unwinds nor ends
\* with an exception, and once estimation has returned the table's estimate is zero.
C16_EstimationFailureDegrades ==
  \A f \in DOMAIN est_futures :
    EstimationFailed(f) =>
      /\ pc \notin {"est_unwind", "raised"}
      /\ EstimationReturned =>
           /\ tables[f].name \in DOMAIN table_row_counts
           /\ table_row_counts[tables[f].name] = 0

\* ------------------------------------------------------ column selection runs
UpperK == <<"K">>
UpperV == <<"V">>
ColAbsent == <<"x">>
ColumnSettingSamples ==
  { <<ColV>>, <<UpperV>>, <<ColV, ColK>>, <<ColAbsent, UpperK>>, <<ColDoc, ColK, ColAbsent>> }

\* one table of up to two data rows; no setting for it, or a list of configured
\* names written in the schema's case, in another case, in another order than
\* the header's, or naming columns the schema does not have
InitCase ==
  \E rows \in 0..2, d \in {"postgresql", "sqlite"}, size \in 1..2,
     coi \in {<<>>} \cup {SettingFor({1}, v) : v \in ColumnSettingSamples},
     idx \in {<<>>} \cup {SettingFor({1}, v) : v \in ColumnSettingSamples} :
    InitWith(SampleManifest(1), SampleFiles(1, [i \in 1..1 |-> rows]), d, size, 1, coi, idx)

SpecCase == InitCase /\ [][Next]_vars

InSchema(t, col) ==
  /\ tables[t].name \in DOMAIN schema
  /\ \E s \in Range(schema[tables[t].name]) : Lower(s) = Lower(col)
RowColumns(row) == [k \in 1..Len(row) |-> row[k][1]]

\* the header columns that match, whatever the letter case, a configured
\* column the schema has; every header column when nothing is configured
ExpectedColumns(t) ==
  IF tables[t].name \notin DOMAIN columns_of_interest THEN SourceHeader(t)
  ELSE SelectSeq(SourceHeader(t),
                 LAMBDA h : \E c \in Range(columns_of_interest[tables[t].name]) :
                              Lower(c) = Lower(h) /\ InSchema(t, c))

\* C11: column selection.  Every batch handed to a worker and every row
\* committed for a table carries exactly these columns, in header order: all
\* header columns when the table has no configured list; otherwise the header
\* columns that equal, letter case aside, a configured column that exists in
\* the table's schema.
C11_ColumnSelection ==
  \A t \in Defs :
    /\ \A i \in 1..Len(queue) : queue[i].t = t => queue[i].filtered_columns = ExpectedColumns(t)
    /\ tables[t].name \in DOMAIN committed =>
         \A row \in DOMAIN committed[tables[t].name] : RowColumns(row) = ExpectedColumns(t)

ConfiguredIndexes(t) ==
  IF tables[t].name \in DOMAIN indexes THEN indexes[tables[t].name] ELSE <<>>
ExpectedIndexes(t) ==
  {<<tables[t].name, c>> : c \in {x \in Range(ConfiguredIndexes(t)) : InSchema(t, x)}}

\* C12: create_indexes indexes a configured column if and only if the table's
\* schema has it, letter case aside.  A table never has an index on another
\* column; once the index stage of a table is passed it has an index for each
\* such column, the absent ones having been skipped; the only exception the
\* index stage ends with is a rejection by the destination.
C12_IndexesForExistingColumns ==
  \A t \in Defs :
    /\ IndexesOf(t) \subseteq ExpectedIndexes(t)
    /\ cur > t => IndexesOf(t) = ExpectedIndexes(t)
    /\ (pc = "raised" /\ cur = t /\ loaded[t]) => error = Some("BackendError")

\* the index stage was passed for a list naming an absent column first and
\* then a column written in another case than the schema's
C12_Witness ==
  /\ pc = "done"
  /\ ConfiguredIndexes(1) = <<ColAbsent, UpperK>>
  /\ IndexesOf(1) = {<<tables[1].name, UpperK>>}

\* ------------------------------------------------------------------- taxa runs
MaxOccRows == 3
Min(a, b) == IF a < b THEN a ELSE b
Sw == <<"S","w">>
Other == <<"O">>
Pm == <<"P","m">>
Pp == <<"P","p">>
OccHeader == <<"verbatimScientificName", "scientificName", "taxonID", "taxonRank", "gbifID">>
OccHeaders == {OccHeader, <<"gbifID", "verbatimScientificName", "scientificName", "taxonRank">>}
OccRecord(v, sn, tid, rank, gid, width) ==
  [fields |-> [c \in Range(OccHeader) |->
                 CASE c = "verbatimScientificName" -> v
                   [] c = "scientificName" -> sn
                   [] c = "taxonID" -> tid
                   [] c = "taxonRank" -> rank
                   [] c = "gbifID" -> gid],
   width |-> width]
\* sample occurrences: ranks in three spellings and another rank, an empty
\* name and an empty taxonID, a row cut after its first field, a blank line
OccSamples ==
  { OccRecord(Sw, Pm, <<"3">>, SPECIES, <<"1">>, 5),
    OccRecord(Sw, Pp, <<"5">>, <<"s","p","e","c","i","e","s">>, <<"2">>, 5),
    OccRecord(Sw, Pm, <<"3">>, <<"G","E","N","U","S">>, <<"3">>, 5),
    OccRecord(<<>>, Pp, <<>>, <<"S","p","e","c","i","e","s">>, <<"4">>, 5),
    OccRecord(Other, Other, <<"7">>, SPECIES, <<"5">>, 1),
    OccRecord(<<>>, <<>>, <<>>, <<>>, <<>>, 0) }
OccLine(rec, header) == [k \in 1..Min(rec.width, Len(header)) |-> rec.fields[header[k]]]

\* an occurrence file of up to MaxOccRows sample rows under either header
\* (the second has no taxonID column), every choice of the options
InitTaxa ==
  \E n \in 0..MaxOccRows :
    \E recs \in [1..n -> OccSamples], header \in OccHeaders,
       g \in {"scientificName", "verbatimScientificName"},
       mismatched \in BOOLEAN, species \in BOOLEAN, ids \in BOOLEAN :
      /\ InitConvert([core |-> None, extensions |-> <<>>], <<>>, <<>>, "sqlite", 1, 1, <<>>, <<>>)
      /\ occ_lines = <<header>> \o [r \in 1..n |-> OccLine(recs[r], header)]
      /\ group_col = g
      /\ show_mismatched_names = mismatched
      /\ species_only = species
      /\ collect_gbif_ids = ids
      /\ taxa_pc = "start"
      /\ needed_cols = <<>>
      /\ occ_pos = 0
      /\ groups = <<>>
      /\ group_order = <<>>
      /\ CommandIdle
      /\ SideIdle

SpecTaxa == InitTaxa /\ [][NextTaxa]_vars

\* the value of a column in data row r ("" when the header has no such column
\* or the row ends before it)
OccField(r, col) ==
  LET header == occ_lines[1]
      row == occ_lines[r + 1]
  IN IF \E k \in 1..Len(header) : header[k] = col /\ k <= Len(row)
     THEN row[CHOOSE k \in 1..Len(header) :
                header[k] = col /\ k <= Len(row) /\ \A j \in 1..(k - 1) : header[j] # col]
     ELSE <<>>
IsSpeciesRank(v) ==
  /\ Len(v) = 7
  /\ \A k \in 1..7 : LowerChar(v[k]) = <<"s","p","e","c","i","e","s">>[k]
PassesFilter(r) == ~species_only \/ IsSpeciesRank(OccField(r, "taxonRank"))
\* the data rows streamed so far
Streamed == IF taxa_pc \in {"aggregate", "aggregated"} THEN 1..(occ_pos - FirstDataLine) ELSE {}
Members(key) == {r \in Streamed : PassesFilter(r) /\ OccField(r, group_col) = key}
DistinctValues(key, col) == {OccField(r, col) : r \in Members(key)} \ {<<>>}
RECURSIVE SumCounts(_)
SumCounts(keys) ==
  IF keys = {} THEN 0
  ELSE LET k == CHOOSE x \in keys : TRUE IN groups[k].count + SumCounts(keys \ {k})

\* C19: occurrence counts.  At every point of the pass, and so after it, the
\* group keys are the grouping values of the rows streamed so far that pass
\* the filter (a missing or empty value being the key ""), each group's count
\* is the number of those rows with that key, and the counts sum to the number
\* of rows that passed; with mismatch reporting on, a group's taxonID and
\* scientificName sets hold the distinct non-empty values of its rows, none
\* when the column is absent.
C19_OccurrenceCounts ==
  /\ DOMAIN groups = {OccField(r, group_col) : r \in {x \in Streamed : PassesFilter(x)}}
  /\ \A key \in DOMAIN groups : groups[key].count = Cardinality(Members(key))
  /\ SumCounts(DOMAIN groups) = Cardinality({r \in Streamed : PassesFilter(r)})
  /\ show_mismatched_names =>
       \A key \in DOMAIN groups :
         /\ groups[key].taxon_ids = DistinctValues(key, "taxonID")
         /\ groups[key].sci_names = DistinctValues(key, "scientificName")
         /\ "taxonID" \notin Range(occ_lines[1]) => Cardinality(groups[key].taxon_ids) = 0

\* the pass ended with a group of two rows holding two taxonIDs and two
\* scientific names, beside a row without a verbatim name under the key ""
C19_Witness ==
  /\ taxa_pc = "aggregated" /\ show_mismatched_names /\ ~species_only
  /\ group_col = "verbatimScientificName"
  /\ Sw \in DOMAIN groups /\ <<>> \in DOMAIN groups
  /\ groups[Sw].count = 2
  /\ Cardinality(groups[Sw].taxon_ids) = 2
  /\ Cardinality(groups[Sw].sci_names) = 2
  /\ groups[<<>>].count >= 1

\* C20: species-only filtering.  With the filter requested, a streamed row
\* whose taxonRank is "SPECIES" in any letter case adds one to the count of
\* its group and its non-empty identifiers to the sets that are collected;
\* any other row (another rank, an empty or missing rank) leaves every group
\* as it was and creates none.
C20_SpeciesOnly ==
  [][(species_only /\ taxa_pc = "aggregate" /\ occ_pos' = occ_pos + 1) =>
       LET r == occ_pos - FirstDataLine + 1
           key == OccField(r, group_col)
           before == IF key \in DOMAIN groups THEN groups[key] ELSE NewTaxaGroup
       IN IF IsSpeciesRank(OccField(r, "taxonRank"))
          THEN /\ DOMAIN groups' = DOMAIN groups \cup {key}
               /\ \A k \in DOMAIN groups : k # key => groups'[k] = groups[k]
               /\ groups'[key].count = before.count + 1
               /\ collect_gbif_ids =>
                    groups'[key].gbif_ids = before.gbif_ids \cup ({OccField(r, "gbifID")} \ {<<>>})
               /\ show_mismatched_names =>
                    /\ groups'[key].taxon_ids = before.taxon_ids \cup ({OccField(r, "taxonID")} \ {<<>>})
                    /\ groups'[key].sci_names = before.sci_names \cup ({OccField(r, "scientificName")} \ {<<>>})
          ELSE groups' = groups]_vars

\* a filtered pass ended that counted a row ranked "SPECIES" and a row ranked
\* "species" in one group and passed over a row ranked "GENUS" of that group
C20_Witness ==
  /\ taxa_pc = "aggregated" /\ species_only /\ group_col = "verbatimScientificName"
  /\ Len(occ_lines) = 4
  /\ \A r \in 1..3 : OccField(r, "verbatimScientificName") = Sw
  /\ {OccField(r, "taxonRank") : r \in 1..3} =
       {SPECIES, <<"s","p","e","c","i","e","s">>, <<"G","E","N","U","S">>}
  /\ groups[Sw].count = 2

\* C26: count dominates the identifier sets.  After any prefix of the row
\* stream and under every combination of the options, each group's count is
\* at least the number of record identifiers, of taxonIDs and of scientific
\* names held for it.
C26_CountDominatesSets ==
  \A key \in DOMAIN groups :
    /\ groups[key].count >= Cardinality(groups[key].gbif_ids)
    /\ groups[key].count >= Cardinality(groups[key].taxon_ids)
    /\ groups[key].count >= Cardinality(groups[key].sci_names)

\* three rows of one group were counted with every set collected: three
\* record identifiers, but only two taxonIDs
C26_Witness ==
  /\ taxa_pc = "aggregated" /\ collect_gbif_ids /\ show_mismatched_names
  /\ Sw \in DOMAIN groups
  /\ groups[Sw].count = 3
  /\ Cardinality(groups[Sw].gbif_ids) = 3
  /\ Cardinality(groups[Sw].taxon_ids) = 2

\* the columns the enabled options call for, beside the grouping column
ColumnsCalledFor ==
  {group_col}
    \cup (IF collect_gbif_ids THEN {"gbifID"} ELSE {})
    \cup (IF show_mismatched_names THEN {"taxonID", "scientificName"} ELSE {})
    \cup (IF species_only THEN {"taxonRank"} ELSE {})
PassStarted == taxa_pc \in {"aggregate", "aggregated"}

\* C27: only what the options call for is read and kept.  Once the pass has
\* started, the columns read are the grouping column and the columns of the
\* enabled options, each once; without image counts no group holds a record
\* identifier and gbifID is not read; without mismatch reporting no group
\* holds a taxonID or a scientific name.
C27_MinimalColumns ==
  PassStarted =>
    /\ Range(needed_cols) = ColumnsCalledFor
    /\ Len(needed_cols) = Cardinality(ColumnsCalledFor)
    /\ ~collect_gbif_ids =>
         /\ "gbifID" \notin Range(needed_cols)
         /\ \A key \in DOMAIN groups : groups[key].gbif_ids = {}
    /\ ~show_mismatched_names =>
         \A key \in DOMAIN groups :
           groups[key].taxon_ids = {} /\ groups[key].sci_names = {}

\* a pass without options over rows that carry record identifiers, taxonIDs
\* and scientific names ended with a group of two rows
C27_Witness ==
  /\ taxa_pc = "aggregated"
  /\ ~collect_gbif_ids /\ ~show_mismatched_names /\ ~species_only
  /\ group_col = "verbatimScientificName"
  /\ needed_cols = <<"verbatimScientificName">>
  /\ Len(occ_lines) >= 3
  /\ \A r \in 1..2 : /\ OccField(r, "gbifID") # <<>>
                     /\ OccField(r, "taxonID") # <<>>
                     /\ OccField(r, "verbatimScientificName") = Sw
  /\ groups[Sw].count >= 2

\* -------------------------------------------------------------- taxa results
ResultRows == 3
ResultSamples ==
  { OccRecord(Sw, Pm, <<"3">>, SPECIES, <<"1">>, 5),
    OccRecord(Sw, Pp, <<"5">>, <<"s","p","e","c","i","e","s">>, <<"2">>, 5),
    OccRecord(Sw, Pm, <<"3">>, <<"G","E","N","U","S">>, <<"3">>, 5),
    OccRecord(Other, Other, <<"7">>, SPECIES, <<"5">>, 1) }
\* multimedia files: two images of record 1, one of record 2, one without an
\* identifier, a blank line, one of a record no occurrence has; and a file
\* without the gbifID column
MmWithIds ==
  << <<"gbifID", "identifier">>,
     << <<"1">>, <<"a">> >>, << <<"1">>, <<"b">> >>, << <<"2">>, <<"c">> >>,
     << <<>>, <<"d">> >>, <<>>, << <<"9">>, <<"e">> >> >>
MmWithoutIds == << <<"identifier">>, << <<"a">> >> >>
MmSamples == {None, Some(MmWithIds), Some(MmWithoutIds)}
LimitSamples == {None, Some(0), Some(2), Some(-1)}

\* the command as called, for given inputs
InitCommand(lines, g, mismatched, species, images, cols, mm, n) ==
  /\ InitConvert([core |-> None, extensions |-> <<>>], <<>>, <<>>, "sqlite", 1, 1, <<>>, <<>>)
  /\ occ_lines = lines
  /\ group_col = g
  /\ show_mismatched_names = mismatched
  /\ species_only = species
  /\ collect_gbif_ids = images
  /\ taxa_pc = "command"
  /\ needed_cols = <<>>
  /\ occ_pos = 0
  /\ groups = <<>>
  /\ group_order = <<>>
  /\ occ_columns = cols
  /\ mm_lines = mm
  /\ limit = n
  /\ image_counts = <<>>
  /\ results = <<>>
  /\ total_groups = None
  /\ console_out = <<>>
  /\ exit_code = None
  /\ SideIdle

\* archives whose occurrence table has every column: up to ResultRows sample
\* rows, with and without a multimedia table, with and without a limit
InitTaxaResults ==
  \E n \in 0..ResultRows :
    \E recs \in [1..n -> ResultSamples],
       g \in {"scientificName", "verbatimScientificName"},
       species \in BOOLEAN, images \in BOOLEAN, mm \in MmSamples, lim \in LimitSamples :
      InitCommand(<<OccHeader>> \o [r \in 1..n |-> OccLine(recs[r], OccHeader)],
                  g, TRUE, species, images, Some(OccHeader), mm, lim)

SpecTaxaResults == InitTaxaResults /\ [][NextTaxaCommand]_vars

DataRows == 1..(Len(occ_lines) - 1)
CountedRows(key) == {r \in DataRows : PassesFilter(r) /\ OccField(r, group_col) = key}
\* the multimedia rows that carry a record identifier
MmRowsOf(gid) ==
  IF IsNone(mm_lines) THEN {}
  ELSE LET lines == Get(mm_lines)
       IN {p \in 2..Len(lines) :
             \E k \in 1..Len(lines[1]) :
               /\ lines[1][k] = "gbifID" /\ \A j \in 1..(k - 1) : lines[1][j] # "gbifID"
               /\ k <= Len(lines[p]) /\ lines[p][k] = gid}
RECURSIVE ImagesOf(_)
ImagesOf(gids) ==
  IF gids = {} THEN 0
  ELSE LET gid == CHOOSE x \in gids : TRUE
       IN Cardinality(MmRowsOf(gid)) + ImagesOf(gids \ {gid})
RecordIdsOf(key) == {OccField(r, "gbifID") : r \in CountedRows(key)} \ {<<>>}
ResultsBuilt == taxa_pc = "built"

\* C21: image counts.  When the results are built, with image counts
\* requested each group's image count is the sum, over the distinct gbifID
\* values of the group's counted rows, of the number of multimedia rows with
\* that gbifID (none when there is no multimedia table or no such row);
\* without the flag every image count is 0.
C21_ImageCounts ==
  ResultsBuilt =>
    \A i \in 1..Len(results) :
      results[i].image_count =
        IF image_counts_flag THEN ImagesOf(RecordIdsOf(results[i].name)) ELSE 0

\* a group whose rows repeat record 1 (two images) beside record 2 (one
\* image) got three images
C21_Witness ==
  /\ ResultsBuilt /\ image_counts_flag /\ mm_lines = Some(MmWithIds)
  /\ group_col = "verbatimScientificName"
  /\ \E i \in 1..Len(results) :
       /\ results[i].name = Sw
       /\ results[i].occurrence_count = 3
       /\ Cardinality(RecordIdsOf(Sw)) = 2
       /\ results[i].image_count = 3

\* name a sorts before name b: at the first place they differ a has ended or
\* has the smaller character
NameBefore(a, b) ==
  \E k \in 1..(Len(b)) :
    /\ \A j \in 1..(k - 1) : j <= Len(a) /\ a[j] = b[j]
    /\ k > Len(a) \/ ord(a[k]) < ord(b[k])
Precedes(a, b) ==
  \/ a.occurrence_count > b.occurrence_count
  \/ a.occurrence_count = b.occurrence_count /\ NameBefore(a.name, b.name)

\* C22: one result per group, in one order.  When the results are built the
\* list has one entry per group, carrying the group's count, and every entry
\* comes before every later one by count descending, then name ascending;
\* the names being distinct, the groups alone fix the sequence, whatever
\* order the rows put them into the dict.
C22_ResultOrder ==
  ResultsBuilt =>
    /\ Len(results) = Cardinality(DOMAIN groups)
    /\ {results[i].name : i \in 1..Len(results)} = DOMAIN groups
    /\ \A i \in 1..Len(results) :
         /\ results[i].occurrence_count = groups[results[i].name].count
         /\ results[i].n_taxon_ids = Cardinality(groups[results[i].name].taxon_ids)
         /\ results[i].n_sci_names = Cardinality(groups[results[i].name].sci_names)
    /\ \A i, j \in 1..Len(results) : i < j => Precedes(results[i], results[j])

\* three groups with one row each entered the dict as Pp, Pm, "" and came
\* out as "", Pm, Pp
C22_Witness ==
  /\ ResultsBuilt
  /\ group_order = <<Pp, Pm, <<>> >>
  /\ [i \in 1..Len(results) |-> results[i].name] = << <<>>, Pm, Pp >>
  /\ \A i \in 1..Len(results) : results[i].occurrence_count = 1

Displayed == {console_out[i].payload : i \in {k \in 1..Len(console_out) : console_out[k].kind = "table"}}
Finished == taxa_pc = "exit" /\ exit_code = Some(0)

\* C25: the limit.  After a run with --limit n over M groups the table shows
\* the first min(n, M) entries of the ordered list, at most n rows, and the
\* total handed to the display is M.
C25_LimitPrefix ==
  (Finished /\ ~IsNone(limit)) =>
    LET n == Get(limit)
        full == _build_taxa_results(groups, group_order, image_counts)
        M == Cardinality(DOMAIN groups)
    IN /\ total_groups = Some(M)
       /\ \A shown \in Displayed :
            /\ Len(shown) <= n
            /\ Len(shown) = Min(n, M)
            /\ shown = SubSeq(full, 1, Min(n, M))

\* ------------------------------------------------------- taxa command runs
CommandRows == 1
\* what the manifest may say of the occurrence table: no such table, every
\* column, no verbatimScientificName, no taxonRank, no column at all
OccColumnSamples ==
  { None,
    Some(OccHeader),
    Some(<<"scientificName", "taxonID", "taxonRank", "gbifID">>),
    Some(<<"verbatimScientificName", "scientificName", "taxonID", "gbifID">>),
    Some(<<>>) }

\* the command on archives with and without an occurrence table, the columns
\* asked for and a multimedia table, under every choice of the options
InitTaxaCommand ==
  \E n \in 0..CommandRows :
    \E recs \in [1..n -> OccSamples],
       g \in {"scientificName", "verbatimScientificName"},
       mismatched \in BOOLEAN, species \in BOOLEAN, images \in BOOLEAN,
       cols \in OccColumnSamples, mm \in MmSamples :
      InitCommand(<<OccHeader>> \o [r \in 1..n |-> OccLine(recs[r], OccHeader)],
                  g, mismatched, species, images, cols, mm, None)

SpecTaxaCommand == InitTaxaCommand /\ [][NextTaxaCommand]_vars

Checked == taxa_pc # "command"
Printed(kind) == \E i \in 1..Len(console_out) : console_out[i].kind = kind
ColumnMissing ==
  /\ ~IsNone(occ_columns)
  /\ \/ group_col \notin Range(Get(occ_columns))
     \/ species_only /\ "taxonRank" \notin Range(Get(occ_columns))

\* C23: a missing column.  Once the command has checked its inputs, if the
\* grouping column, or taxonRank under species-only, is not a column of the
\* occurrence table, the command has ended with a non-zero exit code, the
\* available columns were printed, no occurrence row was read, no group
\* exists and no table was printed.
C23_MissingColumnReported ==
  (Checked /\ ColumnMissing) =>
    /\ taxa_pc = "exit" /\ ~IsNone(exit_code) /\ Get(exit_code) # 0
    /\ \E i \in 1..Len(console_out) :
         console_out[i] = Say("available_columns", Get(occ_columns))
    /\ occ_pos = 0 /\ groups = <<>>
    /\ ~Printed("table")

\* C24: the memory note.  With image counts requested, a command that got
\* past its checks has printed the memory note, and did so before it read an
\* occurrence row.
C24_MemoryNoteWhenImageCounts ==
  (image_counts_flag /\ Checked /\ IsNone(exit_code)) => Printed("memory_note")

\* ------------------------------------------------------------ bulk copy runs
MaxCopyTasks == 3
ConvertIdle == InitConvert([core |-> None, extensions |-> <<>>], <<>>, <<>>, "sqlite", 1, 1, <<>>, <<>>)

\* up to MaxCopyTasks batch tasks of one table, all handed to workers
InitCopy ==
  \E n \in 1..MaxCopyTasks :
    /\ ConvertIdle /\ TaxaIdle /\ CountIdle /\ PollIdle
    /\ copy_n = n
    /\ copy_pc = [t \in 1..n |-> "buffer"]
    /\ copy_conn = [t \in 1..n |-> 0]
    /\ connections = <<>>
    /\ copy_db = {}

SpecCopy == InitCopy /\ [][NextCopy]_vars

HoldsConnection(t) == copy_conn[t] # 0
InTry(t) == copy_pc[t] \in {"copy", "commit", "finally", "finally_raise"}
TaskEnded(t) == copy_pc[t] \in {"done", "raised"}

MaxBytes == 4
ByteSamples == {LF, "\r", "x"}

\* every file of up to MaxBytes bytes
InitCount ==
  \E n \in 0..MaxBytes :
    \E bytes \in [1..n -> ByteSamples] :
      /\ ConvertIdle /\ TaxaIdle /\ CopyIdle /\ PollIdle
      /\ stream = bytes
      /\ stream_pos = 0
      /\ read_sizes = <<>>
      /\ total = 0
      /\ count_pc = "reading"

SpecCount == InitCount /\ [][NextCount]_vars

LineFeedsUpTo(n) == Cardinality({i \in 1..n : stream[i] = LF})
RECURSIVE SumSeq(_)
SumSeq(q) == IF Len(q) = 0 THEN 0 ELSE Head(q) + SumSeq(Tail(q))

\* C28: the count of line feeds.  However the reads cut the stream into
\* buffers, total is the number of line feed bytes among the bytes read so
\* far, and when _count_newlines has returned it is the number of line feed
\* bytes of the whole stream, header line's included; the reads returned the
\* whole stream, and the only empty read is the last one, after which no
\* more is read.
C28_CountsLineFeeds ==
  /\ total = LineFeedsUpTo(stream_pos)
  /\ \A k \in 1..Len(read_sizes) : read_sizes[k] = 0 <=> (k = Len(read_sizes) /\ count_pc = "returned")
  /\ count_pc = "returned" =>
       /\ total = LineFeedsUpTo(Len(stream))
       /\ SumSeq(read_sizes) = Len(stream)

\* a file of two terminated lines and an unterminated third was returned as
\* one byte, two bytes and one byte, the two line feeds in one buffer
C28_Witness ==
  /\ count_pc = "returned"
  /\ stream = <<"x", LF, LF, "x">>
  /\ read_sizes = <<1, 2, 1, 0>>
  /\ total = 2

\* ---------------------------------------------------------------- polling runs
MaxPolls == 3

InitPoll ==
  \E n \in 0..MaxPolls :
    /\ ConvertIdle /\ TaxaIdle /\ CopyIdle /\ CountIdle
    /\ max_polls = n
    /\ poll_i = 0
    /\ poll_pc = "loop"
    /\ poll_log = <<>>

\* the loop runs in one thread; the request has a timeout and the sleep ends
SpecPoll == InitPoll /\ [][NextPoll]_vars /\ WF_vars(NextPoll)

IsReply(x) == x \in Replies
StatusLog == SelectSeq(poll_log, IsReply)
PollEnded == poll_pc \in {"returned", "exit_failed", "exit_max_polls", "raised"}
PollSafety ==
  /\ Len(StatusLog) <= max_polls
  /\ \A k \in 1..(Len(StatusLog) - 1) : StatusLog[k] \in NonTerminal
  /\ poll_pc = "returned" <=> (Len(StatusLog) > 0 /\ StatusLog[Len(StatusLog)] = "SUCCEEDED")
  /\ poll_pc = "exit_failed" <=> (Len(StatusLog) > 0 /\ StatusLog[Len(StatusLog)] \in Failures)
  /\ poll_pc = "exit_max_polls" =>
       /\ Len(StatusLog) = max_polls
       /\ \A k \in 1..Len(StatusLog) : StatusLog[k] \in NonTerminal
  /\ \A k \in 1..Len(poll_log) :
       poll_log[k] = "wait" =>
         /\ k > 1 /\ poll_log[k - 1] \in NonTerminal
         /\ k < Len(poll_log) => IsReply(poll_log[k + 1])
         /\ PollEnded => k < Len(poll_log)
  /\ \A k \in 1..(Len(poll_log) - 1) :
       (IsReply(poll_log[k]) /\ poll_log[k + 1] # "max_polls_reached") => poll_log[k + 1] = "wait"

\* C30: polling ends.  poll_until_complete makes at most max_polls status
\* requests and always ends: it returns exactly when a poll reports
\* SUCCEEDED, exits with an error exactly when a poll reports KILLED,
\* CANCELLED or FAILED, no poll follows either, and it exits with an error
\* after max_polls polls that reported none of them; it waits once between
\* two polls and not after the last poll or after a status that ends the
\* polling.
C30_PollingTerminates == []PollSafety /\ <>PollEnded

\* three polls that ended nothing, a wait after the first and the second
\* only, then the exit for max_polls
C30_Witness ==
  /\ max_polls = 3
  /\ poll_pc = "exit_max_polls"
  /\ poll_log = <<"RUNNING", "wait", "UNKNOWN", "wait", "PREPARING", "max_polls_reached">>

====
